---- MODULE Spec2Model ----
(***************************************************************************)
(* State-machine model of the HiTGen generative training-and-sampling      *)
(* engine: the TemporalizeGenerator (windowing, batching, reshuffling),    *)
(* the masked variational loss, the KL / noise annealing callback, the     *)
(* Keras training loop as the repository drives it, and the Optuna trial   *)
(* (objective) together with the best-scores ledger it maintains.          *)
(*                                                                         *)
(* Timestamps and window indices are 0-based as in the Python source;      *)
(* TLA+ sequences are 1-based, so row t of a tensor is element t+1.        *)
(***************************************************************************)
EXTENDS Integers, Sequences, FiniteSets, TLC

(***************************************************************************)
(* Bounds of the model.                                                    *)
(***************************************************************************)
MaxT == 3
MaxWindow == 3
MaxStride == 2
MaxBatch == 2
MaxEpoch == 2
MaxLen == 2
MaxVal == 1
MaxLevel == 2
MaxAnneal == 2
MaxFitEpochs == 3
MaxPatience == 2
MaxScore == 2
MaxTrials == 1
MaxSubmit == 2
MaxBlocks == 2
MaxKernel == 2

MaxSeries == 3

MaxCalls == 3

VARIABLES
    \* ---- TemporalizeGenerator (models.py:24-97) ----
    data,                       \* self.data: rows of the (T,S) panel
    mask,                       \* self.mask
    dyn_features,               \* self.dyn_features
    window_size,                \* self.window_size
    stride,                     \* self.stride
    batch_size,                 \* self.batch_size
    shuffle,                    \* self.shuffle
    temporalized_data,          \* self.temporalized_data
    temporalized_mask,          \* self.temporalized_mask
    temporalized_dyn_features,  \* self.temporalized_dyn_features
    indices,                    \* self.indices
    epoch,                      \* self.epoch
    batch,                      \* value returned by the last __getitem__
    handed,                     \* windows the last predict handed to detemporalize
    \* ---- masked loss (models.py:179-270) ----
    inp_data,                   \* a window of the panel (flattened)
    inp_alt,                    \* the same window with other values at padded positions
    pred,                       \* the decoder's reconstruction of the window
    loss_mask,                  \* the window's mask
    z_mean,                     \* encoder mean (z_log_var is 0 at every entry)
    loss_a,                     \* compute_loss on inp_data
    loss_b,                     \* compute_loss on inp_alt
    \* ---- training loop and annealing callback ----
    kl_weight,                  \* CVAE.kl_weight (models.py:223)
    noise_scale,                \* Sampling.noise_scale (models.py:104)
    callbacks,                  \* callbacks=[...] given to cvae.fit
    cb,                         \* fields of KLAnnealingAndNoiseScalingCallback
    epochs,                     \* epochs given to cvae.fit
    fit_epoch,                  \* epoch index of the Keras training loop
    fit_pc,                     \* position of the loop inside the epoch
    history,                    \* per epoch: the logged loss and the scalars it used
    loss_values,                \* the losses an epoch of this run may log
    weights,                    \* the model's weights: the number of epochs they were trained
    es,                         \* state of the EarlyStopping callback
    stop_training,              \* model.stop_training
    \* ---- Optuna trial and best-scores ledger ----
    self_patience,              \* self.patience of CreateTransformedVersionsCVAE
    trial_pc,                   \* position inside objective
    trial,                      \* the locals of objective
    scores_data,                \* scores_data of update_best_scores
    ledger,                     \* lines of ..._best_hyperparameters.jsonl
    opt_file,                   \* content of ..._best_hyperparameters_opt.json
    ledger_before,              \* the ledger file when the trial started
    study,                      \* what Optuna recorded for each finished trial
    \* ---- fit and its artifacts (create_dataset_versions_vae.py:587-703) ----
    weights_file,               \* content of ..._vae.weights.h5
    history_file,               \* content of ..._training_history.json
    mc,                         \* state of the ModelCheckpoint callback
    fit_call,                   \* arguments of fit and the files it found
    fit_fn_pc,                  \* position inside fit
    fit_ret,                    \* what fit returned
    \* ---- calls observed from outside ----
    submitted,                  \* per score, how often it was given to update_best_scores
    call_args,                  \* arguments of the function call under observation
    call_ret,                   \* what that call returned or raised
    \* ---- optimizer and ReduceLROnPlateau ----
    learning_rate,              \* optimizer.learning_rate
    reduce_lr                   \* state of the ReduceLROnPlateau callback

genVars == <<data, mask, dyn_features, window_size, stride, batch_size, shuffle,
             temporalized_data, temporalized_mask, temporalized_dyn_features,
             indices, epoch, batch, handed>>

lossVars == <<inp_data, inp_alt, pred, loss_mask, z_mean, loss_a, loss_b>>

fitVars == <<kl_weight, noise_scale, callbacks, cb, epochs, fit_epoch, fit_pc, history,
             loss_values, weights, es, stop_training>>

trialVars == <<self_patience, trial_pc, trial, scores_data, ledger, opt_file,
               ledger_before, study>>

artVars == <<weights_file, history_file, mc, fit_call, fit_fn_pc, fit_ret>>

callVars == <<call_args, call_ret>>

moreVars == <<submitted, callVars>>

rlrVars == <<learning_rate, reduce_lr>>

extVars == <<artVars, moreVars, rlrVars>>

vars == <<genVars, lossVars, fitVars, trialVars, extVars>>

(***************************************************************************)
(* Helpers on sequences.                                                   *)
(***************************************************************************)
Range(f) == {f[i] : i \in DOMAIN f}

Min2(a, b) == IF a <= b THEN a ELSE b

Max2(a, b) == IF a >= b THEN a ELSE b

\* The bijections of 1..n onto itself, as sequences.
Perms(n) == {p \in [1..n -> 1..n] : \A i, j \in 1..n : i # j => p[i] # p[j]}

\* tf.gather(params, idx) for 0-based index vectors.
Gather(params, idx) == [k \in 1..Len(idx) |-> params[idx[k] + 1]]

\* Python slice seq[lo:hi] (0-based, end exclusive, clamped to the length).
Slice(seq, lo, hi) ==
    LET l == Min2(Max2(lo, 0), Len(seq))
        h == Min2(Max2(hi, 0), Len(seq))
    IN  IF h <= l THEN <<>> ELSE [k \in 1..(h - l) |-> seq[l + k]]

\* tf.range(n): 0, 1, .., n-1 (empty when n <= 0).
TfRange(n) == IF n <= 0 THEN <<>> ELSE [k \in 1..n |-> k - 1]

(***************************************************************************)
(* The raw tensors.  Row t of the panel holds one value per series; the    *)
(* mask marks the first row of series 2 as padded (a ragged start); the    *)
(* exogenous row is a periodic feature of the timestamp.                   *)
(***************************************************************************)
PanelOf(T) == [k \in 1..T |-> <<10 * k, IF k = 1 THEN 0 ELSE 10 * k + 1>>]

MaskOf(T) == [k \in 1..T |-> <<1, IF k = 1 THEN 0 ELSE 1>>]

ExogOf(T) == [k \in 1..T |-> <<k % 2, (k + 1) % 2>>]

(***************************************************************************)
(* TemporalizeGenerator.temporalize.  A window is the row slice            *)
(* [i, i + window_size) of the tensor; `start` records the timestamp i the *)
(* slice was cut at.                                                       *)
(***************************************************************************)
\* Mutant: the "+ 1" of the window count is dropped.
NumWindowsOffByOne(rows, w, s) == (rows - w) \div s

NumWindows(rows, w, s) == (rows - w) \div s + 1

WindowStarts(rows, w, s) == [k \in 1..Len(TfRange(NumWindows(rows, w, s))) |->
                                TfRange(NumWindows(rows, w, s))[k] * s]

WindowAt(tensor, i, w) == [start |-> i, rows |-> Slice(tensor, i, i + w)]

temporalize(tensor, w, s) ==
    LET starts == WindowStarts(Len(tensor), w, s)
    IN  [k \in 1..Len(starts) |-> WindowAt(tensor, starts[k], w)]

(***************************************************************************)
(* TemporalizeGenerator.__init__                                           *)
(***************************************************************************)
GenInit(T, w, s, b, sh) ==
    /\ data = PanelOf(T)
    /\ mask = MaskOf(T)
    /\ dyn_features = ExogOf(T)
    /\ window_size = w
    /\ stride = s
    /\ batch_size = b
    /\ shuffle = sh
    /\ temporalized_data = temporalize(PanelOf(T), w, s)
    /\ temporalized_mask = temporalize(MaskOf(T), w, s)
    /\ temporalized_dyn_features = temporalize(ExogOf(T), w, s)
    /\ indices = TfRange(Len(temporalize(PanelOf(T), w, s)))
    /\ epoch = 0
    /\ batch = <<>>
    /\ handed = <<>>

(***************************************************************************)
(* TemporalizeGenerator.__len__                                            *)
(***************************************************************************)
\* Mutant: the incomplete last batch is not counted.
GenLenFloor == Len(indices) \div batch_size

GenLen ==
    LET total_batches == Len(indices) \div batch_size
    IN  IF Len(indices) % batch_size # 0 THEN total_batches + 1 ELSE total_batches

(***************************************************************************)
(* TemporalizeGenerator.__getitem__: the three tensors are gathered with   *)
(* the same slice of self.indices.                                         *)
(***************************************************************************)
\* Mutant: the slice starts one position late.
BatchIndicesShifted(index) ==
    Slice(indices, index * batch_size + 1, (index + 1) * batch_size + 1)

BatchIndices(index) == Slice(indices, index * batch_size, (index + 1) * batch_size)

BatchOf(index) ==
    [k \in 1..Len(BatchIndices(index)) |->
        [data |-> Gather(temporalized_data, BatchIndices(index))[k],
         mask |-> Gather(temporalized_mask, BatchIndices(index))[k],
         dyn  |-> Gather(temporalized_dyn_features, BatchIndices(index))[k]]]

GetItem(index) ==
    /\ batch' = [index |-> index, items |-> BatchOf(index)]
    /\ UNCHANGED <<data, mask, dyn_features, window_size, stride, batch_size, shuffle,
                   temporalized_data, temporalized_mask, temporalized_dyn_features,
                   indices, epoch, handed>>
    /\ UNCHANGED <<lossVars, fitVars, trialVars, extVars>>

(***************************************************************************)
(* TemporalizeGenerator.on_epoch_end: one permutation drawn by             *)
(* tf.random.shuffle is applied to the three window tensors.               *)
(***************************************************************************)
\* Mutant: indices drawn with replacement (a resample, not a permutation).
ResampledIndices(n) == [1..n -> 0..(n - 1)]

ShuffledIndices(n) == {[k \in 1..n |-> p[k] - 1] : p \in Perms(n)}

ReorderData(windows, shuffled_indices) == Gather(windows, shuffled_indices)

\* Mutant: the mask windows are left in their previous order.
ReorderMaskStale(windows, shuffled_indices) == windows

ReorderMask(windows, shuffled_indices) == Gather(windows, shuffled_indices)

ReorderDyn(windows, shuffled_indices) == Gather(windows, shuffled_indices)

\* Mutant: the windows are reordered whatever the shuffle flag says.
OnEpochEndIgnoresFlag ==
    /\ epoch < MaxEpoch
    /\ handed = <<>>
    /\ \E shuffled_indices \in ShuffledIndices(Len(temporalized_data)) :
          /\ temporalized_data' = ReorderData(temporalized_data, shuffled_indices)
          /\ temporalized_mask' = ReorderMask(temporalized_mask, shuffled_indices)
          /\ temporalized_dyn_features' =
                 ReorderDyn(temporalized_dyn_features, shuffled_indices)
    /\ epoch' = epoch + 1
    /\ UNCHANGED <<data, mask, dyn_features, window_size, stride, batch_size, shuffle,
                   indices, batch, handed>>
    /\ UNCHANGED <<lossVars, fitVars, trialVars, extVars>>

OnEpochEnd ==
    /\ epoch < MaxEpoch
    /\ handed = <<>>
    /\ IF shuffle
       THEN \E shuffled_indices \in ShuffledIndices(Len(temporalized_data)) :
              /\ temporalized_data' = ReorderData(temporalized_data, shuffled_indices)
              /\ temporalized_mask' = ReorderMask(temporalized_mask, shuffled_indices)
              /\ temporalized_dyn_features' =
                     ReorderDyn(temporalized_dyn_features, shuffled_indices)
       ELSE UNCHANGED <<temporalized_data, temporalized_mask, temporalized_dyn_features>>
    /\ epoch' = epoch + 1
    /\ UNCHANGED <<data, mask, dyn_features, window_size, stride, batch_size, shuffle,
                   indices, batch, handed>>
    /\ UNCHANGED <<lossVars, fitVars, trialVars, extVars>>

\* on_epoch_end is the only place that draws a permutation: the order in
\* effect during an epoch was drawn iff on_epoch_end has run before it.
OrderDrawn == shuffle /\ epoch >= 1

(***************************************************************************)
(* predict / predict_train: the generator's stored window tensors are      *)
(* encoded and decoded position by position, and the decoded windows are   *)
(* handed to detemporalize in that stored order.                           *)
(***************************************************************************)
HandedWindows(windows) == [k \in 1..Len(windows) |-> windows[k].start]

Predict ==
    /\ Len(temporalized_data) > 0
    /\ handed = <<>>
    /\ handed' = HandedWindows(temporalized_data)
    /\ UNCHANGED <<data, mask, dyn_features, window_size, stride, batch_size, shuffle,
                   temporalized_data, temporalized_mask, temporalized_dyn_features,
                   indices, epoch, batch>>
    /\ UNCHANGED <<lossVars, fitVars, trialVars, extVars>>

(***************************************************************************)
(* Exact rational arithmetic for the float scalars of the loss and of the  *)
(* annealing schedule: a value is [num, den] with den > 0, kept reduced.   *)
(***************************************************************************)
RECURSIVE GCD(_, _)
GCD(a, b) == IF b = 0 THEN a ELSE GCD(b, a % b)

Abs(x) == IF x < 0 THEN -x ELSE x

Rat(n, d) ==
    LET g == GCD(Abs(n), d)
    IN  IF n = 0 THEN [num |-> 0, den |-> 1] ELSE [num |-> n \div g, den |-> d \div g]

RInt(n) == [num |-> n, den |-> 1]

RAdd(a, b) == Rat(a.num * b.den + b.num * a.den, a.den * b.den)

RSub(a, b) == Rat(a.num * b.den - b.num * a.den, a.den * b.den)

RMul(a, b) == Rat(a.num * b.num, a.den * b.den)

RLe(a, b) == a.num * b.den <= b.num * a.den

RMin(a, b) == IF RLe(a, b) THEN a ELSE b

RMax(a, b) == IF RLe(a, b) THEN b ELSE a

RECURSIVE SumSeq(_)
SumSeq(seq) == IF seq = <<>> THEN 0 ELSE Head(seq) + SumSeq(Tail(seq))

\* tf.reduce_mean / K.mean over every entry of the tensor.
ReduceMean(t) == Rat(SumSeq(t), Len(t))

(***************************************************************************)
(* masked_mse: y_true and y_pred are multiplied by the mask, the squared   *)
(* difference is averaged over all entries.                                *)
(***************************************************************************)
\* Mutant: y_true is used without the mask.
masked_mse_unmasked_true(y_true, y_pred, m) ==
    LET y_pred_masked == [k \in 1..Len(y_pred) |-> y_pred[k] * m[k]]
    IN  ReduceMean([k \in 1..Len(y_true) |->
                      (y_true[k] - y_pred_masked[k]) * (y_true[k] - y_pred_masked[k])])

masked_mse(y_true, y_pred, m) ==
    LET y_true_masked == [k \in 1..Len(y_true) |-> y_true[k] * m[k]]
        y_pred_masked == [k \in 1..Len(y_pred) |-> y_pred[k] * m[k]]
    IN  ReduceMean([k \in 1..Len(y_true) |->
                      (y_true_masked[k] - y_pred_masked[k])
                         * (y_true_masked[k] - y_pred_masked[k])])

\* tf.exp on the log-variances of the model, which are all 0.
TfExp(x) == CASE x = 0 -> 1

\* kl_loss = -0.5 * K.mean(1 + z_log_var - z_mean^2 - exp(z_log_var))
kl_loss_of(zm, z_log_var) ==
    RMul(Rat(-1, 2),
         ReduceMean([k \in 1..Len(zm) |->
                       1 + z_log_var[k] - zm[k] * zm[k] - TfExp(z_log_var[k])]))

ZeroLogVar(zm) == [k \in 1..Len(zm) |-> 0]

(***************************************************************************)
(* CVAE.compute_loss                                                       *)
(***************************************************************************)
compute_loss(inp, p, zm, z_log_var, m) ==
    LET reconstruction_loss == masked_mse(inp, p, m)
        kl == kl_loss_of(zm, z_log_var)
    IN  [total_loss |-> RAdd(reconstruction_loss, RMul(kl_weight, kl)),
         reconstruction_loss |-> reconstruction_loss,
         kl_loss |-> kl]

NoLoss == [total_loss |-> "none"]

\* train_step / test_step on the window as stored.
LossStep ==
    /\ loss_a = NoLoss
    /\ loss_a' = compute_loss(inp_data, pred, z_mean, ZeroLogVar(z_mean), loss_mask)
    /\ UNCHANGED <<inp_data, inp_alt, pred, loss_mask, z_mean, loss_b>>
    /\ UNCHANGED <<genVars, fitVars, trialVars, extVars>>

\* The feature-engineering collaborator fills the padded positions (mask = 0)
\* of the window with other values.
PadValues ==
    /\ loss_b = NoLoss
    /\ \E v \in [1..Len(inp_data) -> 0..MaxVal] :
          /\ \A k \in 1..Len(inp_data) : loss_mask[k] = 1 => v[k] = inp_data[k]
          /\ inp_alt' = v
    /\ UNCHANGED <<inp_data, pred, loss_mask, z_mean, loss_a, loss_b>>
    /\ UNCHANGED <<genVars, fitVars, trialVars, extVars>>

\* train_step / test_step on the window with the changed padded values.
LossStepAlt ==
    /\ loss_b = NoLoss
    /\ loss_b' = compute_loss(inp_alt, pred, z_mean, ZeroLogVar(z_mean), loss_mask)
    /\ UNCHANGED <<inp_data, inp_alt, pred, loss_mask, z_mean, loss_a>>
    /\ UNCHANGED <<genVars, fitVars, trialVars, extVars>>

LossInit(x, p, m, zm) ==
    /\ inp_data = x
    /\ inp_alt = x
    /\ pred = p
    /\ loss_mask = m
    /\ z_mean = zm
    /\ loss_a = NoLoss
    /\ loss_b = NoLoss

LossIdle == LossInit(<<0>>, <<0>>, <<1>>, <<0>>)

(***************************************************************************)
(* KLAnnealingAndNoiseScalingCallback.  Levels of the KL weight and of the *)
(* noise scale are integers (multiples of one unit); the values computed   *)
(* from them are exact rationals.                                          *)
(***************************************************************************)
\* Mutant: progress computed from epoch instead of epoch + 1.
compute_progress_late(ep) == RMin(Rat(ep, cb.annealing_epochs), RInt(1))

compute_progress(ep) == RMin(Rat(ep + 1, cb.annealing_epochs), RInt(1))

new_kl_weight(ep) ==
    RAdd(RInt(cb.kl_weight_initial),
         RMul(compute_progress(ep), RInt(cb.kl_weight_final - cb.kl_weight_initial)))

new_noise_scale(ep) ==
    RAdd(RInt(cb.noise_scale_initial),
         RMul(compute_progress(ep), RInt(cb.noise_scale_final - cb.noise_scale_initial)))

InList(name, list) == \E k \in 1..Len(list) : list[k] = name

\* on_epoch_begin of every callback in the list given to fit; only the
\* annealing callback writes model state there.
CallbacksOnEpochBegin(ep) ==
    IF InList("kl_annealing", callbacks) /\ cb.annealing
    THEN /\ kl_weight' = new_kl_weight(ep)
         /\ noise_scale' = new_noise_scale(ep)
    ELSE UNCHANGED <<kl_weight, noise_scale>>

(***************************************************************************)
(* keras EarlyStopping(monitor="loss", mode="auto", patience=...,          *)
(* restore_best_weights=True).  A non-finite loss is NaN; every comparison *)
(* with NaN is false.                                                      *)
(***************************************************************************)
NaN == 0 - 1

Inf == 1000

IsFinite(l) == l # NaN /\ l # Inf

Less(a, b) == a # NaN /\ b # NaN /\ a < b

NoWeights == 0 - 1

EsInit(patience) ==
    [patience |-> patience, best |-> Inf, wait |-> 0, best_weights |-> NoWeights,
     stopped_epoch |-> 0]

\* Mutant: one more epoch of patience.
EsStopsLate(e, ep) == e.wait > e.patience /\ ep > 0

EsStops(e, ep) == e.wait >= e.patience /\ ep > 0

\* EarlyStopping.on_epoch_end up to the patience test.
EsObserve(e, ep, current, w) ==
    LET first == IF e.best_weights = NoWeights THEN w ELSE e.best_weights
        better == Less(current, e.best)
    IN  [patience |-> e.patience,
         best |-> IF better THEN current ELSE e.best,
         wait |-> IF better THEN 0 ELSE e.wait + 1,
         best_weights |-> IF better THEN w ELSE first,
         stopped_epoch |-> e.stopped_epoch]

EsOnEpochEnd(e, ep, current, w) ==
    LET o == EsObserve(e, ep, current, w)
    IN  IF EsStops(o, ep) THEN [o EXCEPT !.stopped_epoch = ep] ELSE o

\* The weights are finite iff no epoch they were trained for logged a
\* non-finite loss.
WeightsFinite(w) == \A k \in 1..w : IsFinite(history[k].loss)

(***************************************************************************)
(* The Keras training loop of cvae.fit(x=generator, epochs=...,            *)
(* callbacks=[...]): per epoch on_epoch_begin, the train steps over all    *)
(* batches, on_epoch_end.                                                  *)
(***************************************************************************)
\* callbacks=[es, mc, reduce_lr] of fit and of hyper_tune_and_train.
FitCallbacks == <<"es", "mc", "reduce_lr">>

\* callbacks=[es, reduce_lr] of objective.
ObjectiveCallbacks == <<"es", "reduce_lr">>

FitStartState(cbs, params, n, patience, kl0, ns0, lv) ==
    [kl_weight |-> kl0, noise_scale |-> ns0, callbacks |-> cbs, cb |-> params,
     epochs |-> n, fit_epoch |-> 0, fit_pc |-> "epoch_begin", history |-> <<>>,
     loss_values |-> lv, weights |-> 0, es |-> EsInit(patience),
     stop_training |-> FALSE]

FitIs(r) ==
    /\ kl_weight = r.kl_weight
    /\ noise_scale = r.noise_scale
    /\ callbacks = r.callbacks
    /\ cb = r.cb
    /\ epochs = r.epochs
    /\ fit_epoch = r.fit_epoch
    /\ fit_pc = r.fit_pc
    /\ history = r.history
    /\ loss_values = r.loss_values
    /\ weights = r.weights
    /\ es = r.es
    /\ stop_training = r.stop_training

FitBecomes(r) ==
    /\ kl_weight' = r.kl_weight
    /\ noise_scale' = r.noise_scale
    /\ callbacks' = r.callbacks
    /\ cb' = r.cb
    /\ epochs' = r.epochs
    /\ fit_epoch' = r.fit_epoch
    /\ fit_pc' = r.fit_pc
    /\ history' = r.history
    /\ loss_values' = r.loss_values
    /\ weights' = r.weights
    /\ es' = r.es
    /\ stop_training' = r.stop_training

FitStart(cbs, params, n, patience, kl0, ns0, lv) ==
    FitIs(FitStartState(cbs, params, n, patience, kl0, ns0, lv))

CbParams(k0, k1, n0, n1, a, on) ==
    [kl_weight_initial |-> k0, kl_weight_final |-> k1, noise_scale_initial |-> n0,
     noise_scale_final |-> n1, annealing_epochs |-> a, annealing |-> on]

FitIdle == FitStart(<<>>, CbParams(0, 0, 0, 0, 1, FALSE), 0, 1, RInt(0), RInt(0), {})

EpochBegin ==
    /\ fit_pc = "epoch_begin"
    /\ fit_epoch < epochs
    /\ ~stop_training
    /\ CallbacksOnEpochBegin(fit_epoch)
    /\ fit_pc' = "train"
    /\ UNCHANGED <<callbacks, cb, epochs, fit_epoch, history, loss_values, weights, es,
                   stop_training>>
    /\ UNCHANGED <<genVars, lossVars, trialVars, extVars>>

\* One epoch of train steps: every forward pass reads kl_weight and
\* noise_scale; the epoch's mean loss is logged.
TrainEpoch ==
    /\ fit_pc = "train"
    /\ \E l \in (IF WeightsFinite(weights) THEN loss_values ELSE {NaN}) :
          history' = Append(history, [loss |-> l, kl_weight |-> kl_weight,
                                      noise_scale |-> noise_scale])
    /\ weights' = weights + 1
    /\ fit_pc' = "epoch_end"
    /\ UNCHANGED <<kl_weight, noise_scale, callbacks, cb, epochs, fit_epoch, loss_values,
                   es, stop_training>>
    /\ UNCHANGED <<genVars, lossVars, trialVars, extVars>>

\* Content of an artifact file: absent, written by an earlier run, opened
\* for writing and not yet complete, or written by this run.
Absent == [kind |-> "absent", content |-> <<>>]

Old == [kind |-> "old", content |-> <<1>>]

Partial == [kind |-> "partial", content |-> <<>>]

Written(content) == [kind |-> "run", content |-> content]

\* ModelCheckpoint(weights_file, save_best_only=True, monitor="loss").
McInit == [best |-> Inf]

McSaves(m, current) == Less(current, m.best)

(***************************************************************************)
(* keras ReduceLROnPlateau(monitor="loss", factor=0.2, patience=10,        *)
(* min_lr=1e-6, cooldown=3), built the same in fit, objective and          *)
(* hyper_tune_and_train.  Losses are whole numbers here, so the callback's *)
(* min_delta of 1e-4 makes no difference to "improved".                    *)
(***************************************************************************)
RlrPatience == 10

RlrCooldown == 3

RlrFactor == Rat(1, 5)

RlrMinLr == Rat(1, 1000000)

\* learning_rate: float = 0.001 of fit.
InitialLr == Rat(1, 1000)

RlrInit == [best |-> Inf, wait |-> 0, cooldown_counter |-> 0]

RlrIdle ==
    /\ learning_rate = InitialLr
    /\ reduce_lr = RlrInit

\* ReduceLROnPlateau.on_epoch_end: the callback's new state and the new rate.
RlrOnEpochEnd(r, lr, current) ==
    LET cooling == r.cooldown_counter > 0
        counter == IF cooling THEN r.cooldown_counter - 1 ELSE r.cooldown_counter
        wait == IF cooling THEN 0 ELSE r.wait
    IN  IF Less(current, r.best)
        THEN [rlr |-> [best |-> current, wait |-> 0, cooldown_counter |-> counter],
              lr |-> lr]
        ELSE IF counter > 0
        THEN [rlr |-> [best |-> r.best, wait |-> wait, cooldown_counter |-> counter],
              lr |-> lr]
        ELSE IF wait + 1 >= RlrPatience /\ ~RLe(lr, RlrMinLr)
        THEN [rlr |-> [best |-> r.best, wait |-> 0, cooldown_counter |-> RlrCooldown],
              lr |-> RMax(RMul(lr, RlrFactor), RlrMinLr)]
        ELSE [rlr |-> [best |-> r.best, wait |-> wait + 1, cooldown_counter |-> counter],
              lr |-> lr]

AfterEpoch == IF stop_training \/ fit_epoch >= epochs THEN "done" ELSE "epoch_begin"

\* on_epoch_end of the callbacks in list order: EarlyStopping, then
\* ModelCheckpoint, which opens the weights file for writing when the loss
\* improved, then ReduceLROnPlateau.
EpochEnd ==
    /\ fit_pc = "epoch_end"
    /\ LET current == history[Len(history)].loss
           e == IF InList("es", callbacks)
                THEN EsOnEpochEnd(es, fit_epoch, current, weights) ELSE es
           stop == InList("es", callbacks) /\ EsStops(e, fit_epoch)
           save == InList("mc", callbacks) /\ McSaves(mc, current)
           plateau == RlrOnEpochEnd(reduce_lr, learning_rate, current)
       IN  /\ es' = e
           /\ IF InList("reduce_lr", callbacks)
              THEN /\ reduce_lr' = plateau.rlr
                   /\ learning_rate' = plateau.lr
              ELSE UNCHANGED <<reduce_lr, learning_rate>>
           /\ stop_training' = stop
           /\ weights' = IF stop /\ e.best_weights # NoWeights
                         THEN e.best_weights ELSE weights
           /\ IF save
              THEN /\ mc' = [best |-> current]
                   /\ weights_file' = Partial
                   /\ fit_pc' = "mc_write"
              ELSE /\ UNCHANGED <<mc, weights_file>>
                   /\ fit_pc' = IF stop \/ fit_epoch + 1 >= epochs
                                THEN "done" ELSE "epoch_begin"
    /\ fit_epoch' = fit_epoch + 1
    /\ UNCHANGED <<kl_weight, noise_scale, callbacks, cb, epochs, history, loss_values>>
    /\ UNCHANGED <<history_file, fit_call, fit_fn_pc, fit_ret>>
    /\ UNCHANGED <<genVars, lossVars, trialVars, moreVars>>

\* ModelCheckpoint finishes writing the model's weights.
McWrite ==
    /\ fit_pc = "mc_write"
    /\ weights_file' = Written(<<weights>>)
    /\ fit_pc' = AfterEpoch
    /\ UNCHANGED <<kl_weight, noise_scale, callbacks, cb, epochs, fit_epoch, history,
                   loss_values, weights, es, stop_training>>
    /\ UNCHANGED <<history_file, mc, fit_call, fit_fn_pc, fit_ret>>
    /\ UNCHANGED <<genVars, lossVars, trialVars, moreVars, rlrVars>>

(***************************************************************************)
(* CreateTransformedVersionsCVAE.fit (lines 587-703); the final training   *)
(* of hyper_tune_and_train (lines 1130-1166) is the same code with the     *)
(* load condition reduced to os.path.exists(weights_file).                 *)
(***************************************************************************)
NoCall == [hyper_tuning |-> FALSE, load_weights |-> FALSE, weights_before |-> Absent,
           history_before |-> Absent]

HistNone == [kind |-> "none", content |-> <<>>]

NoRet == [model |-> NoWeights, history |-> HistNone]

NoArgs == [fn |-> "none"]

MoreIdle ==
    /\ RlrIdle
    /\ submitted = [v \in 1..MaxScore |-> 0]
    /\ call_args = NoArgs
    /\ call_ret = NoArgs

ArtIdle ==
    /\ MoreIdle
    /\ weights_file = Absent
    /\ history_file = Absent
    /\ mc = McInit
    /\ fit_call = NoCall
    /\ fit_fn_pc = "idle"
    /\ fit_ret = NoRet

\* Line 665.
LoadsWeights ==
    weights_file.kind # "absent" /\ ~fit_call.hyper_tuning /\ fit_call.load_weights

\* Lines 665-675 and 703: the weights are loaded, the history is read when
\* its file exists and stays None otherwise; fit returns.
FitLoad ==
    /\ fit_fn_pc = "start"
    /\ LoadsWeights
    /\ weights' = weights_file.content[1]
    /\ fit_ret' = [model |-> weights_file.content[1],
                   history |-> IF history_file.kind # "absent"
                               THEN history_file ELSE HistNone]
    /\ fit_fn_pc' = "returned"
    /\ UNCHANGED <<kl_weight, noise_scale, callbacks, cb, epochs, fit_epoch, fit_pc,
                   history, loss_values, es, stop_training>>
    /\ UNCHANGED <<weights_file, history_file, mc, fit_call>>
    /\ UNCHANGED <<genVars, lossVars, trialVars, moreVars, rlrVars>>

\* Lines 676-692: the checkpoint callback is built and cvae.fit starts.
FitTrain ==
    /\ fit_fn_pc = "start"
    /\ ~LoadsWeights
    /\ \E n \in 1..MaxFitEpochs, patience \in 1..MaxPatience :
          FitBecomes(FitStartState(FitCallbacks, CbParams(1, 1, 1, 1, 1, FALSE), n,
                                   patience, RInt(1), RInt(1), 1..MaxScore))
    /\ mc' = McInit
    /\ reduce_lr' = RlrInit
    /\ learning_rate' = InitialLr
    /\ fit_fn_pc' = "training"
    /\ UNCHANGED <<weights_file, history_file, fit_call, fit_ret>>
    /\ UNCHANGED <<genVars, lossVars, trialVars, moreVars>>

HistoryDict == [k \in 1..Len(history) |-> history[k].loss]

\* Line 700: open(history_file, "w") empties the file.
FitHistoryOpen ==
    /\ fit_fn_pc = "training"
    /\ fit_pc = "done"
    /\ history_file' = Partial
    /\ fit_fn_pc' = "dump"
    /\ UNCHANGED <<weights_file, mc, fit_call, fit_ret>>
    /\ UNCHANGED <<genVars, lossVars, fitVars, trialVars, moreVars, rlrVars>>

\* Lines 701-703: json.dump, then fit returns the model and the history.
FitHistoryDump ==
    /\ fit_fn_pc = "dump"
    /\ history_file' = Written(HistoryDict)
    /\ fit_ret' = [model |-> weights, history |-> Written(HistoryDict)]
    /\ fit_fn_pc' = "returned"
    /\ UNCHANGED <<weights_file, mc, fit_call>>
    /\ UNCHANGED <<genVars, lossVars, fitVars, trialVars, moreVars, rlrVars>>

\* The process is interrupted while fit trains or writes the history.
FitAbort ==
    /\ fit_fn_pc \in {"training", "dump"}
    /\ fit_fn_pc' = "aborted"
    /\ UNCHANGED <<weights_file, history_file, mc, fit_call, fit_ret>>
    /\ UNCHANGED <<genVars, lossVars, fitVars, trialVars, moreVars, rlrVars>>

(***************************************************************************)
(* CreateTransformedVersionsCVAE.update_best_scores, step by step: the     *)
(* ledger file is read, the new record is added when there are fewer than  *)
(* LedgerCap records or its score beats the worst, the list is sorted and  *)
(* cut to LedgerCap, the file is reopened for writing (which empties it)   *)
(* and the records are written one line at a time; then the opt file.      *)
(***************************************************************************)
LedgerCap == 20

None == 0 - 2

RECURSIVE PyMinFrom(_, _)
PyMinFrom(m, rest) ==
    IF rest = <<>> THEN m
    ELSE PyMinFrom(IF Less(Head(rest), m) THEN Head(rest) ELSE m, Tail(rest))

\* Python min(list): the first element, replaced by each later one that
\* compares smaller.
PyMin(seq) == PyMinFrom(Head(seq), Tail(seq))

RECURSIVE PyMaxFrom(_, _)
PyMaxFrom(m, rest) ==
    IF rest = <<>> THEN m
    ELSE PyMaxFrom(IF Less(m, Head(rest)) THEN Head(rest) ELSE m, Tail(rest))

PyMax(seq) == PyMaxFrom(Head(seq), Tail(seq))

\* list.sort(key=score): stable insertion of each record by its score.
RECURSIVE InsertByScore(_, _)
InsertByScore(sorted, r) ==
    IF sorted = <<>> THEN <<r>>
    ELSE IF Less(r.score, Head(sorted).score)
         THEN <<r>> \o sorted
         ELSE <<Head(sorted)>> \o InsertByScore(Tail(sorted), r)

RECURSIVE SortByScore(_)
SortByScore(seq) ==
    IF seq = <<>> THEN <<>>
    ELSE InsertByScore(SortByScore(SubSeq(seq, 1, Len(seq) - 1)), seq[Len(seq)])

NewScore(t) == [trial |-> t.number, patience |-> t.patience, loss |-> t.loss,
                score |-> t.score]

\* Mutant: a full ledger takes no new record.
AddedScoreFullRejects(read, score) == Len(read) < LedgerCap

AddedScore(read, score) ==
    IF Len(read) < LedgerCap THEN TRUE
    ELSE Less(score, PyMax([k \in 1..Len(read) |-> read[k].score]))

\* Lines 730-780: read, decide, plot, sort, cut.
UbsPrepare ==
    /\ trial_pc = "update"
    /\ LET added == AddedScore(ledger, trial.score)
           list == IF added THEN Append(ledger, NewScore(trial)) ELSE ledger
           sorted == SortByScore(list)
       IN  scores_data' = SubSeq(sorted, 1, Min2(Len(sorted), LedgerCap))
    /\ trial_pc' = "open"
    /\ UNCHANGED <<self_patience, trial, ledger, opt_file, ledger_before, study>>
    /\ UNCHANGED <<genVars, lossVars, fitVars, extVars>>

\* Line 783: open(scores_path, "w") empties the file.
UbsOpen ==
    /\ trial_pc = "open"
    /\ ledger' = <<>>
    /\ trial_pc' = "write"
    /\ UNCHANGED <<self_patience, trial, scores_data, opt_file, ledger_before, study>>
    /\ UNCHANGED <<genVars, lossVars, fitVars, extVars>>

\* Lines 784-785: one record per iteration of the loop.
UbsWriteLine ==
    /\ trial_pc = "write"
    /\ Len(ledger) < Len(scores_data)
    /\ ledger' = Append(ledger, scores_data[Len(ledger) + 1])
    /\ UNCHANGED <<self_patience, trial_pc, trial, scores_data, opt_file, ledger_before,
                   study>>
    /\ UNCHANGED <<genVars, lossVars, fitVars, extVars>>

\* Lines 787-794: the opt file, then update_best_scores returns.
UbsWriteOpt ==
    /\ trial_pc = "write"
    /\ Len(ledger) = Len(scores_data)
    /\ opt_file' = [current_trial |-> trial.number,
                    best_score |-> SubSeq(scores_data, 1, Min2(Len(scores_data), 1))]
    /\ trial_pc' = "cleanup"
    /\ UNCHANGED <<self_patience, trial, scores_data, ledger, ledger_before, study>>
    /\ UNCHANGED <<genVars, lossVars, fitVars, extVars>>

(***************************************************************************)
(* CreateTransformedVersionsCVAE.objective, one Optuna trial.              *)
(***************************************************************************)
NoTrial == [number |-> 0 - 1, patience |-> 0, epochs |-> 0, loss |-> None,
            synthetic_finite |-> TRUE, score |-> None]

TrialIdle ==
    /\ self_patience = 1
    /\ trial_pc = "idle"
    /\ trial = NoTrial
    /\ scores_data = <<>>
    /\ ledger = <<>>
    /\ opt_file = <<>>
    /\ ledger_before = <<>>
    /\ study = <<>>

TrialLossValues == {1, 2, NaN}

\* Lines 839-915: the hyperparameters are suggested, the generator and the
\* model are built and cvae.fit starts with callbacks=[es, reduce_lr]; the
\* early stopping is built with self.patience.
TrialBegin ==
    /\ trial_pc = "idle"
    /\ Len(study) < MaxTrials
    /\ \E patience \in 1..MaxPatience, n \in 1..MaxFitEpochs :
          /\ trial' = [number |-> Len(study), patience |-> patience, epochs |-> n,
                       loss |-> None, synthetic_finite |-> TRUE, score |-> None]
          /\ FitBecomes(FitStartState(ObjectiveCallbacks,
                                      CbParams(1, 1, 1, 1, 1, FALSE), n,
                                      self_patience, RInt(1), RInt(1),
                                      TrialLossValues))
    /\ reduce_lr' = RlrInit
    /\ learning_rate' = InitialLr
    /\ trial_pc' = "fit"
    /\ ledger_before' = ledger
    /\ UNCHANGED <<self_patience, scores_data, ledger, opt_file, study>>
    /\ UNCHANGED <<genVars, lossVars, artVars, moreVars>>

\* Line 917: loss = min(history.history["loss"])
TrialLoss ==
    /\ trial_pc = "fit"
    /\ fit_pc = "done"
    /\ trial' = [trial EXCEPT !.loss = PyMin([k \in 1..Len(history) |-> history[k].loss])]
    /\ trial_pc' = "predict"
    /\ UNCHANGED <<self_patience, scores_data, ledger, opt_file, ledger_before, study>>
    /\ UNCHANGED <<genVars, lossVars, fitVars, extVars>>

\* Lines 919-924: predict_train decodes with the weights the model holds.
TrialPredict ==
    /\ trial_pc = "predict"
    /\ trial' = [trial EXCEPT !.synthetic_finite = WeightsFinite(weights)]
    /\ trial_pc' = "score"
    /\ UNCHANGED <<self_patience, scores_data, ledger, opt_file, ledger_before, study>>
    /\ UNCHANGED <<genVars, lossVars, fitVars, extVars>>

\* The scores the scoring collaborator may return: None when no iteration
\* was valid; a number only for synthetic data without NaN.
ScorerResults(synthetic_finite) ==
    IF synthetic_finite THEN (1..MaxScore) \cup {None} ELSE {None}

Pruned(t) == [number |-> t.number, state |-> "PRUNED", value |-> None]

Complete(t) == [number |-> t.number, state |-> "COMPLETE", value |-> t.score]

\* Lines 926-957: the score is computed; None prunes the trial.
TrialScore ==
    /\ trial_pc = "score"
    /\ \E score \in ScorerResults(trial.synthetic_finite) :
          /\ trial' = [trial EXCEPT !.score = score]
          /\ submitted' = IF score = None THEN submitted
                          ELSE [submitted EXCEPT ![score] = @ + 1]
          /\ IF score = None
             THEN /\ trial_pc' = "idle"
                  /\ study' = Append(study, Pruned(trial))
             ELSE /\ trial_pc' = "update"
                  /\ UNCHANGED study
    /\ UNCHANGED <<self_patience, scores_data, ledger, opt_file, ledger_before>>
    /\ UNCHANGED <<genVars, lossVars, fitVars, artVars, callVars, rlrVars>>

\* Lines 981-986: the model is released and the score returned to Optuna.
TrialReturn ==
    /\ trial_pc = "cleanup"
    /\ trial_pc' = "idle"
    /\ study' = Append(study, Complete(trial))
    /\ UNCHANGED <<self_patience, trial, scores_data, ledger, opt_file, ledger_before>>
    /\ UNCHANGED <<genVars, lossVars, fitVars, extVars>>

\* Lines 988-990: an exception raised by any statement of the try block
\* (training, prediction, scoring, plotting, a file write, the cleanup) is
\* caught and turned into TrialPruned.
TrialRaise ==
    /\ trial_pc \in {"fit", "predict", "score", "update", "open", "write", "cleanup"}
    /\ trial_pc' = "idle"
    /\ study' = Append(study, Pruned(trial))
    /\ UNCHANGED <<self_patience, trial, scores_data, ledger, opt_file, ledger_before>>
    /\ UNCHANGED <<genVars, lossVars, fitVars, extVars>>

\* update_best_scores is called for a scored configuration (lines 959-979).
Submit(number, score) ==
    /\ trial_pc = "idle"
    /\ trial' = [number |-> number, patience |-> 1, epochs |-> 1, loss |-> 1,
                 synthetic_finite |-> TRUE, score |-> score]
    /\ submitted' = [submitted EXCEPT ![score] = @ + 1]
    /\ ledger_before' = ledger
    /\ trial_pc' = "update"
    /\ UNCHANGED <<self_patience, scores_data, ledger, opt_file, study>>
    /\ UNCHANGED <<genVars, lossVars, fitVars, artVars, callVars, rlrVars>>

GenGetItem == \E index \in 0..(GenLen - 1) : handed = <<>> /\ GetItem(index)

InitGen ==
    /\ \E T \in 1..MaxT, w \in 1..MaxWindow, s \in 1..MaxStride, b \in 1..MaxBatch,
          sh \in BOOLEAN : GenInit(T, w, s, b, sh)
    /\ LossIdle
    /\ FitIdle
    /\ TrialIdle
    /\ ArtIdle

NextGen == OnEpochEnd \/ GenGetItem \/ Predict

SpecGen == InitGen /\ [][NextGen]_vars

(***************************************************************************)
(* Claims about the Windowing Generator.                                   *)
(***************************************************************************)
Starts(windows) == [k \in 1..Len(windows) |-> windows[k].start]

CountOf(seq, v) == Cardinality({k \in 1..Len(seq) : seq[k] = v})

SameMultiset(a, b) ==
    /\ Len(a) = Len(b)
    /\ \A v \in Range(a) \cup Range(b) : CountOf(a, v) = CountOf(b, v)

\* The timestamps at which a window of w rows fits into T rows at stride s.
FittingStarts(T, w, s) == {i \in 0..T : i % s = 0 /\ i + w <= T}

IsRowSlice(win, tensor, i, w) ==
    /\ win.start = i
    /\ Len(win.rows) = w
    /\ \A k \in 1..w : win.rows[k] = tensor[i + k]

(***************************************************************************)
(* Specification of the loss: a window, its mask, a reconstruction and a   *)
(* latent mean are drawn; the loss is computed on the window and on a      *)
(* window that differs from it at padded positions only.                   *)
(***************************************************************************)
Tensors(n, lo, hi) == [1..n -> lo..hi]

InitLoss ==
    /\ \E n \in 1..MaxLen :
         \E x \in Tensors(n, 0, MaxVal), p \in Tensors(n, 0, 1), m \in Tensors(n, 0, 1),
            zm \in Tensors(1, 0, 1) : LossInit(x, p, m, zm)
    /\ GenInit(2, 1, 1, 1, FALSE)
    /\ \E k \in {1, MaxLevel} :
         FitStart(<<>>, CbParams(k, k, 0, 0, 1, FALSE), 0, 1, RInt(k), RInt(0), {})
    /\ TrialIdle
    /\ ArtIdle

NextLoss == LossStep \/ PadValues \/ LossStepAlt

SpecLoss == InitLoss /\ [][NextLoss]_vars

(***************************************************************************)
(* Specification of the annealing callback: a training loop that has the   *)
(* callback in its callback list.                                          *)
(***************************************************************************)
InitAnneal ==
    /\ \E k0 \in 0..MaxLevel, k1 \in 0..MaxLevel, n0 \in 0..MaxLevel, n1 \in 0..MaxLevel,
          a \in 1..MaxAnneal, on \in BOOLEAN, n \in 1..MaxFitEpochs :
         FitStart(<<"kl_annealing">>, CbParams(k0, k1, n0, n1, a, on), n, 1,
                  RInt(k0), RInt(n0), {1})
    /\ GenInit(2, 1, 1, 1, FALSE)
    /\ LossIdle
    /\ TrialIdle
    /\ ArtIdle

NextAnneal == EpochBegin \/ TrainEpoch \/ EpochEnd

SpecAnneal == InitAnneal /\ [][NextAnneal]_vars

(***************************************************************************)
(* Specification of the training runs of the repository: fit and the final *)
(* training of hyper_tune_and_train pass callbacks=[es, mc, reduce_lr],    *)
(* objective passes callbacks=[es, reduce_lr].  The schedule is the one    *)
(* the annealing callback computes from the drawn levels.                  *)
(***************************************************************************)
InitFit ==
    /\ \E cbs \in {FitCallbacks, ObjectiveCallbacks},
          k0 \in 0..MaxLevel, k1 \in 0..MaxLevel, n0 \in 0..MaxLevel, n1 \in 0..MaxLevel,
          a \in 1..MaxAnneal, n \in 1..MaxFitEpochs :
         FitStart(cbs, CbParams(k0, k1, n0, n1, a, TRUE), n, MaxFitEpochs,
                  RInt(k0), RInt(n0), {1})
    /\ GenInit(2, 1, 1, 1, FALSE)
    /\ LossIdle
    /\ TrialIdle
    /\ ArtIdle

NextFit == EpochBegin \/ TrainEpoch \/ EpochEnd \/ McWrite

SpecFit == InitFit /\ [][NextFit]_vars

(***************************************************************************)
(* Specification of the hyperparameter search: study.optimize runs         *)
(* objective for one trial after another.                                  *)
(***************************************************************************)
InitTrial ==
    /\ \E p \in 1..MaxPatience : self_patience = p
    /\ trial_pc = "idle"
    /\ trial = NoTrial
    /\ scores_data = <<>>
    /\ ledger = <<>>
    /\ opt_file = <<>>
    /\ ledger_before = <<>>
    /\ study = <<>>
    /\ GenInit(2, 1, 1, 1, FALSE)
    /\ LossIdle
    /\ FitIdle
    /\ ArtIdle

FitRunning == trial_pc = "fit"

NextTrial ==
    \/ TrialBegin
    \/ (FitRunning /\ EpochBegin)
    \/ (FitRunning /\ TrainEpoch)
    \/ (FitRunning /\ EpochEnd)
    \/ TrialLoss
    \/ TrialPredict
    \/ TrialScore
    \/ UbsPrepare
    \/ UbsOpen
    \/ UbsWriteLine
    \/ UbsWriteOpt
    \/ TrialReturn
    \/ TrialRaise

SpecTrial == InitTrial /\ [][NextTrial]_vars

(***************************************************************************)
(* Specification of fit and its artifact files: fit is called with any     *)
(* hyper_tuning / load_weights flags, with each of the two files absent or *)
(* left by an earlier run, and may be interrupted while it trains or       *)
(* writes.                                                                 *)
(***************************************************************************)
InitArtifacts ==
    /\ \E wf \in {Absent, Old}, hf \in {Absent, Old}, ht \in BOOLEAN, lw \in BOOLEAN :
          /\ weights_file = wf
          /\ history_file = hf
          /\ fit_call = [hyper_tuning |-> ht, load_weights |-> lw, weights_before |-> wf,
                         history_before |-> hf]
    /\ mc = McInit
    /\ fit_fn_pc = "start"
    /\ fit_ret = NoRet
    /\ MoreIdle
    /\ GenInit(2, 1, 1, 1, FALSE)
    /\ LossIdle
    /\ FitIdle
    /\ TrialIdle

FitTraining == fit_fn_pc = "training"

NextArtifacts ==
    \/ FitLoad
    \/ FitTrain
    \/ (FitTraining /\ EpochBegin)
    \/ (FitTraining /\ TrainEpoch)
    \/ (FitTraining /\ EpochEnd)
    \/ (FitTraining /\ McWrite)
    \/ FitHistoryOpen
    \/ FitHistoryDump
    \/ FitAbort

SpecArtifacts == InitArtifacts /\ [][NextArtifacts]_vars

\* C1: for T >= window_size and stride >= 1 the generator holds exactly
\* floor((T - W)/s) + 1 windows (one per timestamp i*s at which a window
\* fits), and at construction the window at index i is the contiguous row
\* slice [i*s, i*s + W) of the tensor, every row kept whole (all series,
\* all features).
C1_WindowCountAndSlices ==
    Len(data) >= window_size =>
        /\ Len(temporalized_data) = Cardinality(FittingStarts(Len(data), window_size, stride))
        /\ Len(temporalized_mask) = Len(temporalized_data)
        /\ Len(temporalized_dyn_features) = Len(temporalized_data)
        /\ Len(temporalized_data) * stride + window_size > Len(data)
        /\ (Len(temporalized_data) - 1) * stride + window_size <= Len(data)
        /\ epoch = 0 =>
             \A i \in 0..(Len(temporalized_data) - 1) :
                /\ IsRowSlice(temporalized_data[i + 1], data, i * stride, window_size)
                /\ IsRowSlice(temporalized_mask[i + 1], mask, i * stride, window_size)
                /\ IsRowSlice(temporalized_dyn_features[i + 1], dyn_features,
                              i * stride, window_size)

C1_Witness ==
    /\ epoch = 0
    /\ stride = 2
    /\ window_size = 1
    /\ Len(data) = 3
    /\ Len(temporalized_data) = 2
    /\ temporalized_data[2].rows = <<data[3]>>

\* C2: reshuffling is a permutation: after any number of on_epoch_end calls
\* the multiset of window start-indices held by the generator is the
\* multiset held at construction.
C2_ShufflePreservesMultiset ==
    /\ SameMultiset(Starts(temporalized_data),
                    WindowStarts(Len(data), window_size, stride))
    /\ SameMultiset(Starts(temporalized_mask),
                    WindowStarts(Len(data), window_size, stride))
    /\ SameMultiset(Starts(temporalized_dyn_features),
                    WindowStarts(Len(data), window_size, stride))

C2_Witness ==
    /\ shuffle
    /\ epoch = 2
    /\ Len(temporalized_data) >= 3
    /\ Starts(temporalized_data) # WindowStarts(Len(data), window_size, stride)

\* C3: after any number of on_epoch_end calls the data, mask and exogenous
\* windows stored at one position, and so the three windows of every batch
\* element returned by __getitem__, were cut at the same start timestamp.
C3_RegisterAligned ==
    /\ \A k \in 1..Len(temporalized_data) :
          /\ temporalized_mask[k].start = temporalized_data[k].start
          /\ temporalized_dyn_features[k].start = temporalized_data[k].start
    /\ batch # <<>> =>
          \A k \in 1..Len(batch.items) :
             /\ batch.items[k].mask.start = batch.items[k].data.start
             /\ batch.items[k].dyn.start = batch.items[k].data.start

C3_Witness ==
    /\ shuffle
    /\ epoch >= 1
    /\ batch # <<>>
    /\ Len(batch.items) >= 2
    /\ batch.items[1].data.start > batch.items[2].data.start
    /\ batch.items[1].mask.start = batch.items[1].data.start

\* C4: len(generator) = ceil(window_count / batch_size); every batch index
\* below it returns batch_size windows, except the last, which returns the
\* remaining 1..batch_size windows.
C4_LenAndBatchSizes ==
    Len(indices) >= 1 =>
        /\ GenLen * batch_size >= Len(indices)
        /\ (GenLen - 1) * batch_size < Len(indices)
        /\ \A index \in 0..(GenLen - 1) :
              Len(BatchOf(index)) =
                 IF index < GenLen - 1 THEN batch_size
                 ELSE Len(indices) - (GenLen - 1) * batch_size
        /\ batch # <<>> =>
              /\ Len(batch.items) >= 1
              /\ Len(batch.items) <= batch_size
              /\ batch.index < GenLen - 1 => Len(batch.items) = batch_size

C4_Witness ==
    /\ batch # <<>>
    /\ GenLen >= 2
    /\ batch.index = GenLen - 1
    /\ Len(batch.items) < batch_size

\* C5: the windows that predict / predict_train hand to detemporalize are in
\* start-timestamp order, whatever number of training epochs the generator
\* has been through and whether shuffle is enabled or not.
C5_HandedInTimestampOrder ==
    \A k \in 1..(Len(handed) - 1) : handed[k] < handed[k + 1]

(***************************************************************************)
(* Claims about the loss and the annealing schedule.                       *)
(***************************************************************************)
\* C6: the masked reconstruction loss is invariant to padded values: for two
\* panels that agree wherever mask = 1 and differ only where mask = 0,
\* masked_mse and the loss of compute_loss (same reconstruction, mean and
\* log-variance) are the same.
C6_LossIgnoresPaddedValues ==
    /\ (\A k \in 1..Len(inp_data) : loss_mask[k] = 1 => inp_alt[k] = inp_data[k]) =>
          masked_mse(inp_alt, pred, loss_mask) = masked_mse(inp_data, pred, loss_mask)
    /\ (loss_a # NoLoss /\ loss_b # NoLoss) =>
          /\ loss_b.total_loss = loss_a.total_loss
          /\ loss_b.reconstruction_loss = loss_a.reconstruction_loss
          /\ loss_b.kl_loss = loss_a.kl_loss

C6_Witness ==
    /\ loss_a # NoLoss
    /\ loss_b # NoLoss
    /\ inp_alt # inp_data
    /\ \E k \in 1..Len(loss_mask) : loss_mask[k] = 1 /\ pred[k] # inp_data[k]
    /\ loss_a.reconstruction_loss # RInt(0)
    /\ loss_a.kl_loss # RInt(0)

Monotone(a, b, initial, final) ==
    IF final >= initial THEN RLe(a, b) ELSE RLe(b, a)

\* C7: the schedule computed by the annealing callback is monotonic in the
\* epoch index for the KL weight and for the noise scale, equals the final
\* value at epoch = annealing_epochs - 1 and at every later epoch.
C7_ScheduleMonotoneAndExact ==
    cb.annealing =>
        /\ \A i, j \in 1..Len(history) : i < j =>
              /\ Monotone(history[i].kl_weight, history[j].kl_weight,
                          cb.kl_weight_initial, cb.kl_weight_final)
              /\ Monotone(history[i].noise_scale, history[j].noise_scale,
                          cb.noise_scale_initial, cb.noise_scale_final)
        /\ \A i \in 1..Len(history) : i - 1 >= cb.annealing_epochs - 1 =>
              /\ history[i].kl_weight = RInt(cb.kl_weight_final)
              /\ history[i].noise_scale = RInt(cb.noise_scale_final)
        /\ fit_pc \in {"train", "epoch_end"} =>
              /\ kl_weight = new_kl_weight(fit_epoch)
              /\ noise_scale = new_noise_scale(fit_epoch)

C7_Witness ==
    /\ cb.annealing
    /\ cb.annealing_epochs = 2
    /\ Len(history) = 3
    /\ cb.kl_weight_initial < cb.kl_weight_final
    /\ cb.noise_scale_initial > cb.noise_scale_final
    /\ history[1].kl_weight # history[2].kl_weight
    /\ history[3].kl_weight = RInt(cb.kl_weight_final)

\* C8: in every training run of the Training Loop (fit, objective, the
\* final training of hyper_tune_and_train) the KL weight and the noise scale
\* are updated at each epoch boundary according to the annealing schedule:
\* the loss of epoch e is computed with the schedule's values for epoch e.
C8_EpochUsesScheduledValues ==
    \A i \in 1..Len(history) :
        /\ history[i].kl_weight = new_kl_weight(i - 1)
        /\ history[i].noise_scale = new_noise_scale(i - 1)

(***************************************************************************)
(* Claims about the hyperparameter trial and the best-scores ledger.       *)
(***************************************************************************)
NonFiniteLossSeen == \E k \in 1..Len(history) : ~IsFinite(history[k].loss)

LastTrialIs(state) ==
    /\ trial_pc = "idle"
    /\ study # <<>>
    /\ study[Len(study)].number = trial.number
    /\ study[Len(study)].state = state

HasRecordOf(file, number) == \E k \in 1..Len(file) : file[k].trial = number

\* C9: a trial whose training loss becomes non-finite in any epoch ends as
\* pruned: its score is never returned to the search as a valid value and
\* no record for it is written to the best-scores ledger.
C9_NonFiniteLossIsPruned ==
    (trial.number >= 0 /\ NonFiniteLossSeen) =>
        /\ ~LastTrialIs("COMPLETE")
        /\ ~HasRecordOf(ledger, trial.number)

\* C10: a trial that ends pruned (score None, or any step of objective
\* raising, at whatever point) leaves the ledger file holding exactly the
\* complete records it held before the trial started.
C10_PrunedTrialLeavesLedger ==
    LastTrialIs("PRUNED") => ledger = ledger_before

(***************************************************************************)
(* Specification of the best-scores ledger: update_best_scores is called   *)
(* again and again on a ledger file that earlier calls have filled to just *)
(* below, or to, its cap.                                                  *)
(***************************************************************************)
\* The ledger after n calls whose scores came in ascending order.
FilledLedger(scores) ==
    [k \in 1..Len(scores) |-> [trial |-> k - 1, patience |-> 1, loss |-> 1,
                                score |-> scores[k]]]

\* Ascending score lists of length n: i ones followed by twos and so on.
RECURSIVE AscendingLists(_, _)
AscendingLists(n, lo) ==
    IF n = 0 THEN {<<>>}
    ELSE UNION {{<<v>> \o rest : rest \in AscendingLists(n - 1, v)} : v \in lo..MaxScore}

TotalSubmitted == SumSeq([v \in 1..MaxScore |-> submitted[v]])

InitLedger ==
    /\ \E n \in (LedgerCap - 1)..LedgerCap :
         \E scores \in AscendingLists(n, 1) :
            /\ ledger = FilledLedger(scores)
            /\ submitted = [v \in 1..MaxScore |-> CountOf(scores, v)]
    /\ self_patience = 1
    /\ trial_pc = "idle"
    /\ trial = NoTrial
    /\ scores_data = <<>>
    /\ opt_file = <<>>
    /\ ledger_before = <<>>
    /\ study = <<>>
    /\ call_args = NoArgs
    /\ call_ret = NoArgs
    /\ RlrIdle
    /\ weights_file = Absent
    /\ history_file = Absent
    /\ mc = McInit
    /\ fit_call = NoCall
    /\ fit_fn_pc = "idle"
    /\ fit_ret = NoRet
    /\ GenInit(2, 1, 1, 1, FALSE)
    /\ LossIdle
    /\ FitIdle

LedgerSubmit ==
    /\ Len(study) < MaxSubmit
    /\ \E score \in 1..MaxScore : Submit(TotalSubmitted, score)

NextLedger ==
    \/ LedgerSubmit
    \/ UbsPrepare
    \/ UbsOpen
    \/ UbsWriteLine
    \/ UbsWriteOpt
    \/ TrialReturn

SpecLedger == InitLedger /\ [][NextLedger]_vars

(***************************************************************************)
(* get_CVAE (models.py:340-384): the encoder builds n_blocks_encoder       *)
(* MRHIBlocks, then the decoder builds n_blocks_decoder, all with the one  *)
(* pooling_mode; MRHIBlock.__init__ (models.py:387-417) picks the pooling  *)
(* layer.                                                                  *)
(***************************************************************************)
PoolingModes == {"max", "average", "avg", "min"}

MRHIBlockInit(pooling_mode, kernel_size) ==
    IF pooling_mode = "max"
    THEN [pooling_layer |-> "MaxPooling1D", pool_size |-> kernel_size]
    ELSE [pooling_layer |-> "AveragePooling1D", pool_size |-> kernel_size]

OtherIdle ==
    /\ RlrIdle
    /\ submitted = [v \in 1..MaxScore |-> 0]
    /\ weights_file = Absent
    /\ history_file = Absent
    /\ mc = McInit
    /\ fit_call = NoCall
    /\ fit_fn_pc = "idle"
    /\ fit_ret = NoRet
    /\ GenInit(2, 1, 1, 1, FALSE)
    /\ LossIdle
    /\ FitIdle
    /\ TrialIdle

CallFrame ==
    UNCHANGED <<genVars, lossVars, fitVars, trialVars, artVars, submitted, rlrVars>>

InitBuild ==
    /\ \E pm \in PoolingModes, ne \in 1..MaxBlocks, nd \in 1..MaxBlocks,
          ks \in 1..MaxKernel :
         call_args = [fn |-> "get_CVAE", pooling_mode |-> pm, n_blocks_encoder |-> ne,
                      n_blocks_decoder |-> nd, kernel_size |-> ks]
    /\ call_ret = [fn |-> "get_CVAE", encoder |-> <<>>, decoder |-> <<>>,
                   returned |-> FALSE]
    /\ OtherIdle

\* One iteration of the block loop of encoder (models.py:457-468).
EncoderBlock ==
    /\ call_args.fn = "get_CVAE"
    /\ Len(call_ret.encoder) < call_args.n_blocks_encoder
    /\ call_ret' = [call_ret EXCEPT !.encoder =
                        Append(@, MRHIBlockInit(call_args.pooling_mode,
                                                call_args.kernel_size))]
    /\ UNCHANGED call_args
    /\ CallFrame

\* One iteration of the block loop of decoder (models.py:541-552).
DecoderBlock ==
    /\ call_args.fn = "get_CVAE"
    /\ Len(call_ret.encoder) = call_args.n_blocks_encoder
    /\ Len(call_ret.decoder) < call_args.n_blocks_decoder
    /\ call_ret' = [call_ret EXCEPT !.decoder =
                        Append(@, MRHIBlockInit(call_args.pooling_mode,
                                                call_args.kernel_size))]
    /\ UNCHANGED call_args
    /\ CallFrame

\* models.py:384: return enc, dec
GetCvaeReturn ==
    /\ call_args.fn = "get_CVAE"
    /\ ~call_ret.returned
    /\ Len(call_ret.encoder) = call_args.n_blocks_encoder
    /\ Len(call_ret.decoder) = call_args.n_blocks_decoder
    /\ call_ret' = [call_ret EXCEPT !.returned = TRUE]
    /\ UNCHANGED call_args
    /\ CallFrame

NextBuild == EncoderBlock \/ DecoderBlock \/ GetCvaeReturn

SpecBuild == InitBuild /\ [][NextBuild]_vars

(***************************************************************************)
(* The output stage of decoder (models.py:572-592): the last Dense layer's *)
(* values, which may be any reals, are multiplied by the mask and passed   *)
(* through custom_relu_linear_saturation (models.py:9-21).                 *)
(***************************************************************************)
TfRelu(x) == RMax(x, RInt(0))

\* Mutant: no saturation at 1.
custom_relu_unsaturated(x) == TfRelu(x)

custom_relu_linear_saturation(x) == RMin(TfRelu(x), RInt(1))

DecoderOutput(out, m) ==
    [k \in 1..Len(out) |-> custom_relu_linear_saturation(RMul(out[k], RInt(m[k])))]

\* Values of the last Dense layer: the halves from -(MaxVal+1)/2 up.
DenseValues == {Rat(n, 2) : n \in (0 - MaxVal - 1)..(2 * MaxVal + 2)}

InitDecoder ==
    /\ \E n \in 1..MaxLen :
         \E out \in [1..n -> DenseValues], m \in Tensors(n, 0, 1) :
            call_args = [fn |-> "decoder", out |-> out, mask |-> m]
    /\ call_ret = NoArgs
    /\ OtherIdle

DecoderCall ==
    /\ call_args.fn = "decoder"
    /\ call_ret = NoArgs
    /\ call_ret' = [fn |-> "decoder",
                    final_output |-> DecoderOutput(call_args.out, call_args.mask)]
    /\ UNCHANGED call_args
    /\ CallFrame

NextDecoder == DecoderCall

SpecDecoder == InitDecoder /\ [][NextDecoder]_vars

(***************************************************************************)
(* _preprocess_data (create_dataset_versions_vae.py:355-379): the mask is  *)
(* taken, missing entries are filled with 0.0 and every series (column) is *)
(* scaled by StandardScaler().fit_transform: (x - mean) / std, with std    *)
(* replaced by 1 when it is 0.  A scaled value is kept exactly as its sign *)
(* and its square.                                                         *)
(***************************************************************************)
FillNa(x, m) == [k \in 1..Len(x) |-> IF m[k] = 1 THEN x[k] ELSE 0]

Sign(n) == IF n > 0 THEN 1 ELSE IF n < 0 THEN 0 - 1 ELSE 0

ColumnMean(col) == Rat(SumSeq(col), Len(col))

RSquare(a) == RMul(a, a)

RDiv(a, b) == Rat(a.num * b.den, a.den * b.num)

RECURSIVE RSumSeq(_)
RSumSeq(seq) == IF seq = <<>> THEN RInt(0) ELSE RAdd(Head(seq), RSumSeq(Tail(seq)))

\* np.var: the mean of the squared deviations from the mean.
ColumnVar(col) ==
    RDiv(RSumSeq([k \in 1..Len(col) |-> RSquare(RSub(RInt(col[k]), ColumnMean(col)))]),
         RInt(Len(col)))

StandardScale(col) ==
    [k \in 1..Len(col) |->
        LET d == RSub(RInt(col[k]), ColumnMean(col))
        IN  [sgn |-> Sign(d.num),
             sq |-> IF ColumnVar(col).num = 0 THEN RSquare(d)
                    ELSE RDiv(RSquare(d), ColumnVar(col))]]

InitScale ==
    /\ \E n \in 1..MaxT :
         \E x \in Tensors(n, 0, MaxLevel), m \in Tensors(n, 0, 1) :
            call_args = [fn |-> "_preprocess_data", x_wide |-> x, mask |-> m]
    /\ call_ret = NoArgs
    /\ OtherIdle

PreprocessCall ==
    /\ call_args.fn = "_preprocess_data"
    /\ call_ret = NoArgs
    /\ call_ret' = [fn |-> "_preprocess_data",
                    scaled_data |-> StandardScale(FillNa(call_args.x_wide, call_args.mask)),
                    mask |-> call_args.mask]
    /\ UNCHANGED call_args
    /\ CallFrame

NextScale == PreprocessCall

SpecScale == InitScale /\ [][NextScale]_vars

(***************************************************************************)
(* predict (create_dataset_versions_vae.py:1171-1215), for one latent      *)
(* entry of one window.  The trained encoder and decoder are deterministic *)
(* at inference; only the encoder's Sampling layer and np.random.normal    *)
(* draw noise.  The decoder is an unknown function of what it is given, so *)
(* its output is kept as the tuple of its inputs: outputs that agree here  *)
(* agree for every decoder.                                                *)
(***************************************************************************)
NormalDraws == (0 - MaxVal)..MaxVal

\* Sampling.call (models.py:108-120) with z_log_var = 0.
SampleZ(zm, scale, draw) == RAdd(RInt(zm), RMul(RInt(TfExp(0)), RMul(scale, RInt(draw))))

\* Mutant: the augmentation starts from the encoder's sample z.
ZAugmentedFromSample(enc, epsilon) ==
    RAdd(enc.z, RMul(RInt(TfExp(0)), RMul(RInt(5), epsilon)))

\* Lines 1192-1194: alpha = 5; z_mean + exp(0.5 * z_log_var) * alpha * epsilon
ZAugmented(enc, epsilon) ==
    RAdd(RInt(enc.z_mean), RMul(RInt(TfExp(0)), RMul(RInt(5), epsilon)))

DecoderPredict(z, m, dyn) == [latent_input |-> z, mask_input |-> m,
                              dyn_features_input |-> dyn]

InitPredict ==
    /\ \E zm \in 0..MaxVal, m \in 0..1 :
         call_args = [fn |-> "predict", z_mean |-> zm, mask |-> m, dyn |-> 1,
                      noise_scale |-> RInt(1)]
    /\ call_ret = [fn |-> "predict", calls |-> <<>>]
    /\ OtherIdle

\* One call of predict on the same model and the same windows.
PredictCall ==
    /\ call_args.fn = "predict"
    /\ Len(call_ret.calls) < 2
    /\ \E sampled \in NormalDraws, drawn \in NormalDraws :
          LET enc == [z_mean |-> call_args.z_mean, z_log_var |-> 0,
                      z |-> SampleZ(call_args.z_mean, call_args.noise_scale, sampled)]
              epsilon == Rat(drawn, 10)
          IN  call_ret' = [call_ret EXCEPT !.calls =
                  Append(@, [z |-> enc.z, epsilon |-> epsilon,
                             generated_data |->
                                 DecoderPredict(ZAugmented(enc, epsilon),
                                                call_args.mask, call_args.dyn)])]
    /\ UNCHANGED call_args
    /\ CallFrame

NextPredict == PredictCall

SpecPredict == InitPredict /\ [][NextPredict]_vars

(***************************************************************************)
(* Specification of early stopping: the training runs of fit, objective    *)
(* and hyper_tune_and_train with any patience and any finite loss curve.   *)
(***************************************************************************)
InitEarlyStop ==
    /\ \E cbs \in {FitCallbacks, ObjectiveCallbacks}, n \in 1..(MaxFitEpochs + 1),
          patience \in 1..MaxPatience :
         FitStart(cbs, CbParams(1, 1, 1, 1, 1, FALSE), n, patience, RInt(1), RInt(1),
                  1..(MaxScore + 1))
    /\ GenInit(2, 1, 1, 1, FALSE)
    /\ LossIdle
    /\ TrialIdle
    /\ ArtIdle

SpecEarlyStop == InitEarlyStop /\ [][NextFit]_vars

(***************************************************************************)
(* Specification of the learning-rate rule: training runs long enough for  *)
(* ReduceLROnPlateau to act, with the early-stopping patience of each      *)
(* training path: fit's default, and the lowest and highest value a trial  *)
(* suggests (which hyper_tune_and_train takes from the best trial).        *)
(***************************************************************************)
\* patience: int = 30 of fit and of __init__ (self.patience).
DefaultPatience == 30

\* trial.suggest_int("patience", 10, 15, step=1)
SuggestedPatienceMin == 10

SuggestedPatienceMax == 15

PlateauLosses == {1, 2}

InitPlateau ==
    /\ \E cbs \in {FitCallbacks, ObjectiveCallbacks},
          n \in (RlrPatience + 1)..(RlrPatience + MaxLevel),
          patience \in {DefaultPatience, SuggestedPatienceMin, SuggestedPatienceMax} :
         FitStart(cbs, CbParams(1, 1, 1, 1, 1, FALSE), n, patience, RInt(1), RInt(1),
                  PlateauLosses)
    /\ GenInit(2, 1, 1, 1, FALSE)
    /\ LossIdle
    /\ TrialIdle
    /\ ArtIdle

SpecPlateau == InitPlateau /\ [][NextFit]_vars

(***************************************************************************)
(* Claims about fit and its artifact files.                                *)
(***************************************************************************)
\* C11: when a training run is aborted, a weights file and a history file
\* that existed before the run still hold their earlier contents: neither
\* was replaced by the aborted run's results nor left partially written.
C11_AbortLeavesArtifacts ==
    fit_fn_pc = "aborted" =>
        /\ (fit_call.weights_before # Absent => weights_file = fit_call.weights_before)
        /\ (fit_call.history_before # Absent => history_file = fit_call.history_before)

\* C13: whenever fit returns, it returns a trained model together with a
\* loss history (a mapping, never None), also when the weights file or the
\* history file was absent.
C13_FitReturnsModelAndHistory ==
    fit_fn_pc = "returned" =>
        /\ fit_ret.model # NoWeights
        /\ fit_ret.history # HistNone

(***************************************************************************)
(* Claims about the best-scores ledger under repeated updates.             *)
(***************************************************************************)
SubmittedBelow(v) == SumSeq([u \in 1..(v - 1) |-> submitted[u]])

\* How many records of score v the n lowest submitted scores contain.
LowestCount(v, n) == Min2(submitted[v], Max2(0, n - SubmittedBelow(v)))

LedgerScores == [k \in 1..Len(ledger) |-> ledger[k].score]

\* C12: between update_best_scores calls the ledger holds min(20, n) records
\* for n submitted scores, in ascending score order, and their scores are
\* the min(20, n) lowest of all scores ever submitted.
C12_LedgerIsTopK ==
    trial_pc = "idle" =>
        LET kept == Min2(LedgerCap, TotalSubmitted)
        IN  /\ Len(ledger) = kept
            /\ \A k \in 1..(Len(ledger) - 1) : ledger[k].score <= ledger[k + 1].score
            /\ \A v \in 1..MaxScore : CountOf(LedgerScores, v) = LowestCount(v, kept)

\* A call on a full ledger has returned, its record entered the ledger and a
\* worse one was dropped.
C12_Witness ==
    /\ trial_pc = "idle"
    /\ Len(study) > 0
    /\ TotalSubmitted > LedgerCap
    /\ Len(ledger) = LedgerCap
    /\ HasRecordOf(ledger, study[Len(study)].number)
    /\ CountOf(LedgerScores, MaxScore) < submitted[MaxScore]

(***************************************************************************)
(* Further claims about the Windowing Generator.                           *)
(***************************************************************************)
\* C14: a panel shorter than the window (T < window_size) is a fatal error
\* at construction, for every stride: no generator exists that is an empty
\* stream of zero windows and zero batches.
C14_ShortPanelIsFatal ==
    Len(data) < window_size => ~(temporalized_data = <<>> /\ GenLen = 0)

\* C17: with shuffle enabled the window order is permuted at the start of
\* each epoch, before any batch of that epoch is served: whenever a batch
\* has been served, the order it was taken from had been drawn.
C17_PermutedBeforeEachEpoch ==
    (shuffle /\ batch # <<>> /\ Len(temporalized_data) > 1) => OrderDrawn

(***************************************************************************)
(* Claims about model construction.                                        *)
(***************************************************************************)
\* C15: an unrecognized pooling mode (anything other than "max" or
\* "average") is a fatal error at model construction: get_CVAE builds no
\* block and returns no model for such a mode.
C15_UnknownPoolingIsFatal ==
    (call_args.fn = "get_CVAE" /\ call_args.pooling_mode \notin {"max", "average"}) =>
        /\ call_ret.encoder = <<>>
        /\ ~call_ret.returned

(***************************************************************************)
(* Claims about the decoder's output range and the scaled inputs.          *)
(***************************************************************************)
\* C18: every entry of the decoder's reconstruction lies in [0,1], and every
\* entry at a position where mask = 0 is exactly 0.
C18_DecoderOutputInUnitRange ==
    call_ret.fn = "decoder" =>
        \A k \in 1..Len(call_ret.final_output) :
            /\ RLe(RInt(0), call_ret.final_output[k])
            /\ RLe(call_ret.final_output[k], RInt(1))
            /\ (call_args.mask[k] = 0 => call_ret.final_output[k] = RInt(0))

\* The decoder has been run on a value above 1 at an observed position and
\* on a nonzero value at a padded position.
C18_Witness ==
    /\ call_ret.fn = "decoder"
    /\ \E k \in 1..Len(call_args.out) :
          call_args.mask[k] = 1 /\ ~RLe(call_args.out[k], RInt(1))
    /\ \E k \in 1..Len(call_args.out) :
          call_args.mask[k] = 0 /\ call_args.out[k] # RInt(0)

\* C19: every observed entry of the scaled panel handed to the Windowing
\* Generator as the reconstruction target lies in [0,1], the range of the
\* decoder's output.
C19_ScaledInputsInUnitRange ==
    call_ret.fn = "_preprocess_data" =>
        \A k \in 1..Len(call_ret.scaled_data) :
            call_ret.mask[k] = 1 =>
                /\ call_ret.scaled_data[k].sgn >= 0
                /\ RLe(call_ret.scaled_data[k].sq, RInt(1))

(***************************************************************************)
(* Claims about sampling.                                                  *)
(***************************************************************************)
\* C16: two sampling calls on the same model, windows, mask and exogenous
\* features with the same augmentation noise give identical outputs; the
\* encoder's training-time sample z, which differs between the calls, does
\* not enter the output.
C16_SamplingDeterministic ==
    call_ret.fn = "predict" =>
        \A i, j \in 1..Len(call_ret.calls) :
            call_ret.calls[i].epsilon = call_ret.calls[j].epsilon =>
                call_ret.calls[i].generated_data = call_ret.calls[j].generated_data

\* Two calls drew the same augmentation noise while the encoder sampled
\* different z.
C16_Witness ==
    /\ call_ret.fn = "predict"
    /\ Len(call_ret.calls) = 2
    /\ call_ret.calls[1].epsilon = call_ret.calls[2].epsilon
    /\ call_ret.calls[1].z # call_ret.calls[2].z

(***************************************************************************)
(* Claims about early stopping.                                            *)
(***************************************************************************)
LossAt(k) == history[k].loss

\* Epoch k (1-based) improved iff its loss is below every earlier loss.
Improved(k) == \A j \in 1..(k - 1) : LossAt(k) < LossAt(j)

\* The number of consecutive epochs without improvement that end at epoch k.
RECURSIVE NonImprovingRun(_)
NonImprovingRun(k) ==
    IF k = 0 \/ Improved(k) THEN 0 ELSE NonImprovingRun(k - 1) + 1

\* The first epoch with the lowest loss of the first n epochs.
BestEpoch(n) ==
    CHOOSE k \in 1..n :
        /\ \A j \in 1..n : LossAt(k) <= LossAt(j)
        /\ \A j \in 1..(k - 1) : LossAt(j) > LossAt(k)

\* C20: training halts at the first epoch after which `patience`
\* consecutive epochs have brought no improvement of the loss, and when it
\* halts the model holds the weights of the epoch with the lowest loss.
C20_EarlyStoppingHaltsAndRestores ==
    (InList("es", callbacks) /\ fit_pc # "epoch_end" /\ Len(history) > 0) =>
        /\ stop_training <=> NonImprovingRun(Len(history)) >= es.patience
        /\ \A k \in 1..(Len(history) - 1) : NonImprovingRun(k) < es.patience
        /\ stop_training => weights = BestEpoch(Len(history))
        /\ stop_training => fit_pc = "done"

\* Training halted before its last epoch after two epochs without
\* improvement, and weights older than the last epoch's were restored.
C20_Witness ==
    /\ InList("es", callbacks)
    /\ stop_training
    /\ fit_pc = "done"
    /\ es.patience = 2
    /\ fit_epoch < epochs
    /\ weights = 1
    /\ Len(history) = 3

(***************************************************************************)
(* Claims about the learning-rate reduction rule.                          *)
(***************************************************************************)
RHalf(a) == Rat(a.num, 2 * a.den)

\* C21: whenever the learning-rate rule changes the rate, the new rate is
\* half the old one (never below the floor), and the rule's patience is
\* shorter than the early-stopping patience of the training run.
C21_RateHalvedAfterShorterPatience ==
    [][/\ learning_rate' # learning_rate =>
             learning_rate' = RMax(RHalf(learning_rate), RlrMinLr)
       /\ (InList("reduce_lr", callbacks) /\ InList("es", callbacks)) =>
             RlrPatience < es.patience]_vars

(***************************************************************************)
(* Claims about the value of the reconstruction loss.                      *)
(***************************************************************************)
ObservedPositions == {k \in 1..Len(loss_mask) : loss_mask[k] = 1}

ObservedSquaredErrors ==
    [k \in 1..Len(loss_mask) |->
        IF loss_mask[k] = 1 THEN (inp_data[k] - pred[k]) * (inp_data[k] - pred[k]) ELSE 0]

\* C22: with at least one observed entry, the reconstruction loss is the
\* sum of squared errors over the observed positions divided by the number
\* of observed positions.
C22_LossIsMeanOverObserved ==
    (loss_a # NoLoss /\ ObservedPositions # {}) =>
        loss_a.reconstruction_loss =
            Rat(SumSeq(ObservedSquaredErrors), Cardinality(ObservedPositions))

(***************************************************************************)
(* Forward pass of the encoder and of the decoder (models.py:428-592) on   *)
(* one window with one feature.  Tensors are sequences of exact rationals. *)
(* A Dense layer with one unit is a kernel and a bias; the layers after    *)
(* the block loop (GRU, Dense, clipping, Sampling) are kept as the tuple   *)
(* of the tensors they read.                                               *)
(***************************************************************************)
TInt(x) == [k \in 1..Len(x) |-> RInt(x[k])]

TAdd(a, b) == [k \in 1..Len(a) |-> RAdd(a[k], b[k])]

TSub(a, b) == [k \in 1..Len(a) |-> RSub(a[k], b[k])]

TZero(n) == [k \in 1..n |-> RInt(0)]

\* The weights a Dense layer may hold.
DenseWeights == {[kernel |-> 0 - 1, bias |-> 1], [kernel |-> 1, bias |-> 0]}

\* tf.keras.layers.LeakyReLU(alpha=0.01)
LeakyReLU(x) == IF RLe(RInt(0), x) THEN x ELSE RMul(Rat(1, 100), x)

Affine(w, x) == RAdd(RMul(RInt(w.kernel), x), RInt(w.bias))

\* TimeDistributed(Dense(1, activation=LeakyReLU)) on one feature.
DenseLeaky(w, x) == [k \in 1..Len(x) |-> LeakyReLU(Affine(w, x[k]))]

\* The same layer on Concatenate()([dyn_features_input, x]).
DenseConcat(w, dyn, x) ==
    [k \in 1..Len(x) |-> LeakyReLU(RAdd(RMul(RInt(w.kernel), dyn[k]), Affine(w, x[k])))]

\* Mutant: the values enter the network without the mask.
MultiplyValuesOnly(x, m) == x

\* layers.Multiply()([x, m])
Multiply(x, m) == [k \in 1..Len(x) |-> RMul(x[k], m[k])]

\* Positions pooled into position k: pool_size wide, strides=1,
\* padding="same".
PoolWindow(k, n, size) ==
    {j \in 1..n : k - ((size - 1) \div 2) <= j /\ j <= k - ((size - 1) \div 2) + size - 1}

MaxOf(x, S) == CHOOSE v \in {x[j] : j \in S} : \A j \in S : RLe(x[j], v)

SetToSeq(S) == [i \in 1..Cardinality(S) |->
                  CHOOSE j \in S : Cardinality({l \in S : l < j}) = i - 1]

MeanOf(x, S) == RDiv(RSumSeq([i \in 1..Cardinality(S) |-> x[SetToSeq(S)[i]]]),
                     RInt(Cardinality(S)))

Pooling(block, x) ==
    [k \in 1..Len(x) |->
        IF block.pooling_layer = "MaxPooling1D"
        THEN MaxOf(x, PoolWindow(k, Len(x), block.pool_size))
        ELSE MeanOf(x, PoolWindow(k, Len(x), block.pool_size))]

\* MRHIBlock.call: pooling, the relu MLP, the linear backcast layer.
MRHIBlockCall(block, w, inputs) ==
    LET x == Pooling(block, inputs)
        h == [k \in 1..Len(x) |-> TfRelu(Affine(w, x[k]))]
    IN  [k \in 1..Len(h) |-> Affine(w, h[k])]

LoopStart(x) == [entered |-> x, backcast_total |-> x, final_output |-> TZero(Len(x)),
                 block_inputs |-> <<>>, backcasts |-> <<>>]

\* Mutant: the backcast replaces the accumulated output.
BlockLoopStepOverwrites(st, backcast) ==
    [entered |-> st.entered,
     backcast_total |-> TSub(st.backcast_total, backcast),
     final_output |-> backcast,
     block_inputs |-> Append(st.block_inputs, st.backcast_total),
     backcasts |-> Append(st.backcasts, backcast)]

\* backcast_total = backcast_total - backcast; final_output += backcast
BlockLoopStep(st, backcast) ==
    [entered |-> st.entered,
     backcast_total |-> TSub(st.backcast_total, backcast),
     final_output |-> TAdd(st.final_output, backcast),
     block_inputs |-> Append(st.block_inputs, st.backcast_total),
     backcasts |-> Append(st.backcasts, backcast)]

\* encoder, lines 446-452.
EncoderEntry(w, x, m, dyn) == DenseConcat(w, TInt(dyn), Multiply(TInt(x), TInt(m)))

\* decoder, lines 529-537.
DecoderEntry(w1, w2, z, dyn) == DenseConcat(w2, TInt(dyn), DenseLeaky(w1, TInt(z)))

\* What the layers after the block loop read.
LoopResult(st, bi_rnn) ==
    [final_output |-> st.final_output,
     gru_input |-> IF bi_rnn THEN st.backcast_total ELSE <<>>]

\* encoder, lines 470-499: z_mean, z_log_var and the sample.
EncoderOutputs(st, bi_rnn, epsilon) ==
    [z_mean |-> [layer |-> "z_mean", reads |-> LoopResult(st, bi_rnn)],
     z_log_var |-> [layer |-> "z_log_var", reads |-> LoopResult(st, bi_rnn)],
     z |-> [layer |-> "sampling", reads |-> LoopResult(st, bi_rnn),
            epsilon |-> epsilon]]

\* decoder, lines 554-586.
DecoderOutputs(st, bi_rnn, m) ==
    [final_output |-> [layer |-> "masked_output", reads |-> LoopResult(st, bi_rnn),
                       mask_input |-> m]]

\* The other window: the same at observed positions, other values at the
\* padded ones.
Repadded(x, m) == [k \in 1..Len(x) |-> IF m[k] = 1 THEN x[k] ELSE x[k] + 1]

InitNet ==
    /\ \E fn \in {"encoder", "decoder"}, n \in 1..MaxLen, pm \in {"max", "average"},
          nb \in 1..MaxBlocks, ks \in 1..MaxKernel, rnn \in BOOLEAN :
         \E x \in Tensors(n, 0, 1), m \in Tensors(n, 0, 1) :
            call_args = [fn |-> fn, main_input |-> x,
                         alt_input |-> IF fn = "encoder" THEN Repadded(x, m) ELSE x,
                         mask_input |-> m, dyn_features_input |-> [k \in 1..n |-> 1],
                         n_blocks |-> nb, pooling_mode |-> pm, kernel_size |-> ks,
                         bi_rnn |-> rnn, epsilon |-> 1]
    /\ call_ret = [fn |-> "net", pc |-> "entry", run |-> LoopStart(<<>>),
                   alt |-> LoopStart(<<>>), outputs |-> <<>>, alt_outputs |-> <<>>]
    /\ OtherIdle

\* The layers before the block loop, on the window and on the other window.
NetEntry ==
    /\ call_ret.fn = "net"
    /\ call_ret.pc = "entry"
    /\ \E w1 \in DenseWeights, w2 \in DenseWeights :
          LET a == call_args
              Entry(x) == IF a.fn = "encoder"
                          THEN EncoderEntry(w2, x, a.mask_input, a.dyn_features_input)
                          ELSE DecoderEntry(w1, w2, x, a.dyn_features_input)
          IN  /\ a.fn = "encoder" => w1 = w2
              /\ call_ret' = [call_ret EXCEPT !.pc = "blocks",
                                            !.run = LoopStart(Entry(a.main_input)),
                                            !.alt = LoopStart(Entry(a.alt_input))]
    /\ UNCHANGED call_args
    /\ CallFrame

\* One iteration of the block loop (lines 457-468 and 541-552): a new
\* MRHIBlock is built and called on the residual.
NetBlock ==
    /\ call_ret.fn = "net"
    /\ call_ret.pc = "blocks"
    /\ Len(call_ret.run.backcasts) < call_args.n_blocks
    /\ \E w \in DenseWeights :
          LET block == MRHIBlockInit(call_args.pooling_mode, call_args.kernel_size)
              Step(st) == BlockLoopStep(st, MRHIBlockCall(block, w, st.backcast_total))
          IN  call_ret' = [call_ret EXCEPT !.run = Step(call_ret.run),
                                           !.alt = Step(call_ret.alt)]
    /\ UNCHANGED call_args
    /\ CallFrame

\* The layers after the block loop.
NetOutput ==
    /\ call_ret.fn = "net"
    /\ call_ret.pc = "blocks"
    /\ Len(call_ret.run.backcasts) = call_args.n_blocks
    /\ LET a == call_args
           Out(st) == IF a.fn = "encoder"
                      THEN EncoderOutputs(st, a.bi_rnn, a.epsilon)
                      ELSE DecoderOutputs(st, a.bi_rnn, a.mask_input)
       IN  call_ret' = [call_ret EXCEPT !.pc = "done",
                                        !.outputs = Out(call_ret.run),
                                        !.alt_outputs = Out(call_ret.alt)]
    /\ UNCHANGED call_args
    /\ CallFrame

NextNet == NetEntry \/ NetBlock \/ NetOutput

SpecNet == InitNet /\ [][NextNet]_vars

(***************************************************************************)
(* Claims about the forward pass.                                          *)
(***************************************************************************)
\* C23: the encoder's mean, log-variance and sample are the same for two
\* windows that have the same mask, exogenous features and noise and differ
\* at padded positions only.
C23_EncoderIgnoresPaddedValues ==
    (call_ret.fn = "net" /\ call_ret.pc = "done" /\ call_args.fn = "encoder") =>
        call_ret.outputs = call_ret.alt_outputs

C23_Witness ==
    /\ call_ret.fn = "net"
    /\ call_ret.pc = "done"
    /\ call_args.fn = "encoder"
    /\ call_args.main_input # call_args.alt_input
    /\ call_args.main_input = <<1, 0>>
    /\ call_args.mask_input = <<1, 0>>
    /\ call_ret.run.entered # TZero(2)
    /\ call_ret.outputs = call_ret.alt_outputs

RECURSIVE TSum(_, _)
TSum(seq, n) == IF seq = <<>> THEN TZero(n) ELSE TAdd(Head(seq), TSum(Tail(seq), n))

ResidualDecomposes(st) ==
    /\ TAdd(st.backcast_total, st.final_output) = st.entered
    /\ \A k \in 1..Len(st.block_inputs) :
          st.block_inputs[k] =
              TSub(st.entered, TSum(SubSeq(st.backcasts, 1, k - 1), Len(st.entered)))

\* C24: in the encoder and in the decoder, after each block the residual
\* plus the accumulated backcasts is the tensor that entered the first
\* block, and each block receives the residual left by the blocks before
\* it.
C24_ResidualPlusBackcastsIsInput ==
    (call_ret.fn = "net" /\ call_ret.pc \in {"blocks", "done"}) =>
        ResidualDecomposes(call_ret.run) /\ ResidualDecomposes(call_ret.alt)

C24_Witness ==
    /\ call_ret.fn = "net"
    /\ call_ret.pc = "done"
    /\ call_args.fn = "decoder"
    /\ Len(call_ret.run.backcasts) = 2
    /\ call_ret.run.backcasts[1] # TZero(Len(call_ret.run.entered))
    /\ call_ret.run.backcasts[2] # TZero(Len(call_ret.run.entered))
    /\ call_ret.run.backcast_total # call_ret.run.entered
    /\ ResidualDecomposes(call_ret.run)

(***************************************************************************)
(* Claims about one epoch of the Windowing Generator.                      *)
(***************************************************************************)
\* The start timestamps of the windows served by the batch indices
\* index..len(generator)-1, in serving order.
RECURSIVE ServedFrom(_)
ServedFrom(index) ==
    IF index >= GenLen THEN <<>>
    ELSE [k \in 1..Len(BatchOf(index)) |-> BatchOf(index)[k].data.start]
             \o ServedFrom(index + 1)

\* C25: iterating the batch indices 0..len(generator)-1 serves every window
\* exactly once, whatever the window count and the batch size and after
\* any number of shuffles.
C25_BatchesPartitionWindows ==
    /\ Len(ServedFrom(0)) = Len(temporalized_data)
    /\ \A i \in Range(WindowStarts(Len(data), window_size, stride)) :
          CountOf(ServedFrom(0), i) = 1
    /\ Range(ServedFrom(0)) = Range(WindowStarts(Len(data), window_size, stride))

C25_Witness ==
    /\ shuffle
    /\ epoch = 2
    /\ Len(temporalized_data) = 3
    /\ batch_size = 2
    /\ GenLen = 2
    /\ batch # <<>>
    /\ batch.index = 1
    /\ Len(batch.items) = 1
    /\ ServedFrom(0) # WindowStarts(Len(data), window_size, stride)
    /\ Range(ServedFrom(0)) = {0, 1, 2}

StoredInCutOrder(windows, tensor) ==
    \A k \in 1..Len(windows) :
       IsRowSlice(windows[k], tensor, (k - 1) * stride, window_size)

\* C26: with shuffle disabled on_epoch_end changes nothing but epoch, which
\* grows by one, and the window stored at position i is still the slice
\* that starts at i * stride; with or without shuffle the raw panel, the
\* mask, the exogenous features and the index vector are never modified.
C26_EpochEndFrame ==
    [][/\ UNCHANGED <<data, mask, dyn_features, indices>>
       /\ (~shuffle /\ epoch' # epoch) =>
             /\ epoch' = epoch + 1
             /\ UNCHANGED <<data, mask, dyn_features, window_size, stride, batch_size,
                            shuffle, temporalized_data, temporalized_mask,
                            temporalized_dyn_features, indices, batch, handed>>
       /\ ~shuffle =>
             /\ StoredInCutOrder(temporalized_data', data')
             /\ StoredInCutOrder(temporalized_mask', mask')
             /\ StoredInCutOrder(temporalized_dyn_features', dyn_features')]_vars

C26_Witness ==
    /\ ~shuffle
    /\ epoch = 2
    /\ stride = 2
    /\ Len(temporalized_data) = 2
    /\ temporalized_data[2].start = 2
    /\ batch # <<>>

(***************************************************************************)
(* Claims about the hyperparameters the ledger records.                    *)
(***************************************************************************)
\* C27: a hyperparameter value recorded in the ledger is the value that
\* governed the training of that trial; the recorded patience is the
\* patience of the trial's early stopping.
C27_RecordedPatienceGovernedTraining ==
    trial_pc \in {"write", "cleanup"} =>
        \A k \in 1..Len(ledger) :
           ledger[k].trial = trial.number => ledger[k].patience = es.patience

(***************************************************************************)
(* CreateTransformedVersionsCVAE._load_or_create_split (lines 230-270)     *)
(* and check_series_in_train_test (lines 209-228).  Series ids are the     *)
(* numbers 1..n; the split file holds the two id lists that were dumped.   *)
(***************************************************************************)
Intersect1d(a, b) == SetToSeq(Range(a) \cap Range(b))

Setdiff1d(a, b) == SetToSeq(Range(a) \ Range(b))

\* series_to_check: the series that have a row at the date.
check_series_in_train_test(series_to_check, train_ids, test_ids) ==
    LET in_train == Intersect1d(train_ids, series_to_check)
        in_test == Intersect1d(test_ids, series_to_check)
    IN  IF Len(in_train) = 0 /\ Len(in_test) > 0
        THEN [train_ids |-> Append(train_ids, in_test[1]),
              test_ids |-> Setdiff1d(test_ids, <<in_test[1]>>)]
        ELSE [train_ids |-> train_ids, test_ids |-> test_ids]

\* int(len(self.unique_ids) * train_test_split) for the fraction p / q.
TrainSize(n, split) == (n * split.num) \div split.den

\* Lines 245-250.
SlicedSplit(unique_ids, train_test_split, train_test_absolute) ==
    LET train_size == TrainSize(Len(unique_ids), train_test_split)
    IN  [train_ids |-> IF train_test_absolute # None /\ train_test_absolute # 0
                       THEN Slice(unique_ids, 0, train_test_absolute)
                       ELSE Slice(unique_ids, 0, train_size),
         test_ids |-> Slice(unique_ids, train_size, Len(unique_ids))]

\* The fractions train_test_split is drawn from; 7/10 is the default.
SplitFractions == {Rat(1, 3), Rat(1, 2), Rat(7, 10)}

NonEmptySubsets(S) == SUBSET S \ {{}}

InitSplit ==
    /\ \E n \in 2..MaxSeries :
         \E split \in SplitFractions, absolute \in {None} \cup 1..n,
            at_min \in NonEmptySubsets(1..n), at_max \in NonEmptySubsets(1..n) :
            call_args = [fn |-> "_load_or_create_split", train_test_split |-> split,
                         train_test_absolute |-> absolute,
                         ds_min_series |-> SetToSeq(at_min),
                         ds_max_series |-> SetToSeq(at_max)]
               /\ call_ret = [fn |-> "_load_or_create_split",
                              unique_ids |-> [k \in 1..n |-> k],
                              split_file |-> Absent, returns |-> <<>>]
    /\ OtherIdle

\* Lines 236-241: the file exists and its two lists are returned.
SplitLoad ==
    /\ call_args.fn = "_load_or_create_split"
    /\ Len(call_ret.returns) < MaxCalls
    /\ call_ret.split_file.kind # "absent"
    /\ call_ret' = [call_ret EXCEPT !.returns =
                        Append(@, [created |-> FALSE,
                                   train_ids |-> call_ret.split_file.content[1],
                                   test_ids |-> call_ret.split_file.content[2]])]
    /\ UNCHANGED call_args
    /\ CallFrame

\* Lines 243-270: shuffle, slice, dump, then the two checks on the lists
\* that are returned.
SplitCreate ==
    /\ call_args.fn = "_load_or_create_split"
    /\ Len(call_ret.returns) < MaxCalls
    /\ call_ret.split_file.kind = "absent"
    /\ \E shuffled_indices \in ShuffledIndices(Len(call_ret.unique_ids)) :
          LET unique_ids == Gather(call_ret.unique_ids, shuffled_indices)
              sliced == SlicedSplit(unique_ids, call_args.train_test_split,
                                    call_args.train_test_absolute)
              first == check_series_in_train_test(call_args.ds_min_series,
                                                  sliced.train_ids, sliced.test_ids)
              second == check_series_in_train_test(call_args.ds_max_series,
                                                   first.train_ids, first.test_ids)
          IN  call_ret' = [call_ret EXCEPT
                  !.unique_ids = unique_ids,
                  !.split_file = Written(<<sliced.train_ids, sliced.test_ids>>),
                  !.returns = Append(@, [created |-> TRUE,
                                         train_ids |-> second.train_ids,
                                         test_ids |-> second.test_ids])]
    /\ UNCHANGED call_args
    /\ CallFrame

NextSplit == SplitLoad \/ SplitCreate

SpecSplit == InitSplit /\ [][NextSplit]_vars

(***************************************************************************)
(* Claims about the persisted train/test split.                            *)
(***************************************************************************)
SameIds(a, b) == Range(a) = Range(b) /\ Len(a) = Len(b)

\* C28: the ids returned by the call that creates the split are the ids
\* every later call loads.
C28_SplitRoundTrips ==
    call_ret.fn = "_load_or_create_split" =>
        \A k \in 1..Len(call_ret.returns) :
           /\ SameIds(call_ret.returns[k].train_ids, call_ret.returns[1].train_ids)
           /\ SameIds(call_ret.returns[k].test_ids, call_ret.returns[1].test_ids)

\* C29: the train and test ids a fresh call returns are disjoint and cover
\* every series id exactly once, for every fraction in (0, 1) and every
\* train_test_absolute (None or positive), also after the date checks
\* moved a series.
C29_FreshSplitPartitionsIds ==
    call_ret.fn = "_load_or_create_split" =>
        \A k \in 1..Len(call_ret.returns) :
           call_ret.returns[k].created =>
              LET r == call_ret.returns[k]
              IN  /\ Range(r.train_ids) \cap Range(r.test_ids) = {}
                  /\ Range(r.train_ids) \cup Range(r.test_ids) =
                         Range(call_ret.unique_ids)
                  /\ Len(r.train_ids) + Len(r.test_ids) = Len(call_ret.unique_ids)

(***************************************************************************)
(* split_train_test (discriminative_score.py:21-62).  splits.json holds a  *)
(* dict from key to the two index lists, kept here as the sequence of its  *)
(* entries in insertion order.                                             *)
(***************************************************************************)
\* The sample numbers the scoring loops pass as key.
SampleKeys == {0, 1}

\* Mutant: the dict always starts empty.
LoadSplitsFresh(file) == <<>>

\* Lines 36-40.
LoadSplits(file) == IF file.kind # "absent" THEN file.content ELSE <<>>

HasKey(splits, key) == \E k \in 1..Len(splits) : splits[k].key = key

Lookup(splits, key) == splits[CHOOSE k \in 1..Len(splits) : splits[k].key = key]

\* Lines 48-49; train_ratio is the fraction p / q.
NSeriesTrain(n_series, train_ratio, max_train_series) ==
    Min2((train_ratio.num * n_series) \div train_ratio.den, max_train_series)

NSeriesTest(n_series, n_series_train, max_test_series) ==
    Min2(n_series - n_series_train, max_test_series)

\* np.random.choice(unique_ids, size, replace=False): the samples it may draw.
Choices(unique_ids, size) ==
    {SetToSeq(S) : S \in {T \in SUBSET Range(unique_ids) : Cardinality(T) = size}}

\* The id lists a caller may pass: one series or about MaxSeries of them,
\* distinct ids starting at 1 or at 2.
UniqueIdLists ==
    {[k \in 1..n |-> k + first - 1] : n \in {1, MaxSeries - 1, MaxSeries}, first \in {1, 2}}

\* Line 52.
TestIndices(unique_ids, train_indices, n_series_test) ==
    Slice(Setdiff1d(unique_ids, train_indices), 0, n_series_test)

InitStore ==
    /\ \E ratio \in {Rat(4, 5), Rat(1, 2)}, mtr \in {1, MaxSeries}, mte \in {1, MaxSeries} :
         call_args = [fn |-> "split_train_test", train_ratio |-> ratio,
                      max_train_series |-> mtr, max_test_series |-> mte]
    /\ call_ret = [fn |-> "split_train_test", split_file |-> Absent, calls |-> 0,
                   key |-> 0, unique_ids |-> <<>>, train_indices |-> <<>>,
                   test_indices |-> <<>>]
    /\ OtherIdle

\* Lines 42-44: the key is stored and its split is returned.
StoreLookup ==
    /\ call_args.fn = "split_train_test"
    /\ call_ret.calls < MaxCalls
    /\ \E key \in SampleKeys, unique_ids \in UniqueIdLists :
          LET splits == LoadSplits(call_ret.split_file)
          IN  /\ HasKey(splits, key)
              /\ call_ret' = [call_ret EXCEPT
                     !.calls = @ + 1, !.key = key, !.unique_ids = unique_ids,
                     !.train_indices = Lookup(splits, key).train_indices,
                     !.test_indices = Lookup(splits, key).test_indices]
    /\ UNCHANGED call_args
    /\ CallFrame

\* Lines 46-62: a new split is drawn, added to the dict, and the dict is
\* dumped.
StoreCreate ==
    /\ call_args.fn = "split_train_test"
    /\ call_ret.calls < MaxCalls
    /\ \E key \in SampleKeys, unique_ids \in UniqueIdLists :
          LET a == call_args
              splits == LoadSplits(call_ret.split_file)
              n_series == Len(unique_ids)
              n_series_train == NSeriesTrain(n_series, a.train_ratio, a.max_train_series)
              n_series_test == NSeriesTest(n_series, n_series_train, a.max_test_series)
          IN  /\ ~HasKey(splits, key)
              /\ \E train_indices \in Choices(unique_ids, n_series_train) :
                    LET test_indices ==
                            TestIndices(unique_ids, train_indices, n_series_test)
                    IN  call_ret' = [call_ret EXCEPT
                            !.calls = @ + 1, !.key = key, !.unique_ids = unique_ids,
                            !.split_file =
                                Written(Append(splits,
                                               [key |-> key,
                                                train_indices |-> train_indices,
                                                test_indices |-> test_indices])),
                            !.train_indices = train_indices,
                            !.test_indices = test_indices]
    /\ UNCHANGED call_args
    /\ CallFrame

NextStore == StoreLookup \/ StoreCreate

SpecStore == InitStore /\ [][NextStore]_vars

(***************************************************************************)
(* Claims about the stored splits.                                         *)
(***************************************************************************)
SplitWellFormed(e) ==
    /\ Range(e.train_indices) \cap Range(e.test_indices) = {}
    /\ Len(e.train_indices) <= call_args.max_train_series
    /\ Len(e.test_indices) <= call_args.max_test_series

\* C30: a call of split_train_test leaves the split stored under every
\* existing key as it was and returns the stored split for an existing
\* key whatever unique_ids it is given; a new key adds one entry and changes no other; every stored split
\* has disjoint train and test lists of at most max_train_series and
\* max_test_series members.
C30_StoredSplitsImmutable ==
    [][call_args.fn = "split_train_test" =>
          LET before == call_ret.split_file.content
              after == call_ret'.split_file.content
          IN  /\ Len(after) >= Len(before)
              /\ \A k \in 1..Len(before) : after[k] = before[k]
              /\ HasKey(before, call_ret'.key) =>
                    /\ after = before
                    /\ call_ret'.train_indices =
                           Lookup(before, call_ret'.key).train_indices
                    /\ call_ret'.test_indices =
                           Lookup(before, call_ret'.key).test_indices
              /\ ~HasKey(before, call_ret'.key) => Len(after) = Len(before) + 1
              /\ \A k \in 1..Len(after) : SplitWellFormed(after[k])
              /\ \A k, l \in 1..Len(after) : after[k].key = after[l].key => k = l]_vars

C30_Witness ==
    /\ call_args.fn = "split_train_test"
    /\ call_ret.calls = 3
    /\ Len(call_ret.split_file.content) = 2
    /\ call_ret.key = call_ret.split_file.content[1].key
    /\ call_ret.split_file.content[1].train_indices #
           call_ret.split_file.content[2].train_indices
    /\ call_ret.train_indices = call_ret.split_file.content[1].train_indices
    /\ Len(call_ret.train_indices) = 1
    /\ Len(call_ret.test_indices) = 1
    /\ call_ret.unique_ids = <<2, 3, 4>>
    /\ call_ret.train_indices = <<1>>

====
